---- MODULE Spec2Model ----
(***************************************************************************)
(* A model of the getValue financial data engine.                          *)
(*                                                                         *)
(* The repository holds the core twice: src/financial_data.py and the      *)
(* near-duplicate src/getValue_all_in_one.py.  The variable `module` says  *)
(* which copy's classes a run uses; a definition with the suffix _aio is   *)
(* the all-in-one copy of the definition without it.                       *)
(*                                                                         *)
(* Optional[float] values: None is the empty tuple and a present value v   *)
(* is the one-element tuple <<v>>.  Floats are modelled by small integers  *)
(* (sums and differences of them are exact in IEEE doubles as well); a     *)
(* quotient is kept as an exact fraction <<numerator, denominator>>.       *)
(***************************************************************************)
EXTENDS Integers, Sequences, FiniteSets, TLC

VARIABLES
    module,          \* which copy of the classes is in use
    cash_flow,       \* a CashFlow record                      (SpecCashFlow)
    debt_breakdown,  \* a DebtBreakdown record                 (SpecDebt)
    ratios,          \* a FinancialRatios object: period, previous_period (SpecRatios)
    company,         \* a CompanyFinancials handed to a PeriodManager (SpecTTM)
    api_client,      \* GetValueDataManager.api_client is not None     (Spec)
    companies,       \* GetValueDataManager.companies: ticker -> company (Spec)
    calls            \* the calls made so far, oldest first: op, before, after, ret

vars == <<module, cash_flow, debt_breakdown, ratios, company, api_client, companies, calls>>

Modules == {"financial_data", "all_in_one"}

-----------------------------------------------------------------------------
(* Bounds of the model *)

\* present values range over -1 .. MaxVal
MaxVal == 2
\* calls made on one record
MaxCalls == 2
\* quarterly periods of a company
MaxQuarters == 5
\* load_company calls on one manager
MaxLoads == 2

-----------------------------------------------------------------------------
(* Optional[float] *)

None == <<>>

Some(v) == <<v>>

\* `x is not None`
IsSet(x) == x # None

\* Python truthiness of an Optional[float]: None and 0 are both falsy
Truthy(x) == x # None /\ x[1] # 0

Vals == {None} \cup {Some(v) : v \in (-1)..MaxVal}

-----------------------------------------------------------------------------
(* CashFlow *)

CashFlowFields ==
    {"cash_flow_from_operations", "capital_expenditures", "free_cash_flow",
     "stock_based_compensation", "adjusted_fcf", "depreciation_amortization",
     "change_in_working_capital", "dividend_paid", "repurchase_of_common_stock"}

\* CashFlow(): every field defaults to None
CashFlow == [f \in CashFlowFields |-> None]

\* calculate_fcf without its first test: the value is derived again even when
\* free_cash_flow is already set
calculate_fcf_recompute(cf) ==
    IF IsSet(cf.cash_flow_from_operations) /\ IsSet(cf.capital_expenditures)
    THEN LET v == Some(cf.cash_flow_from_operations[1] + cf.capital_expenditures[1])
         IN  [obj |-> [cf EXCEPT !.free_cash_flow = v], ret |-> v]
    ELSE [obj |-> cf, ret |-> cf.free_cash_flow]

\* a calculate_fcf that derives cfo + capex over a free_cash_flow already set
calculate_fcf_overwriting(cf) ==
    IF IsSet(cf.cash_flow_from_operations) /\ IsSet(cf.capital_expenditures)
    THEN LET v == Some(cf.cash_flow_from_operations[1] + cf.capital_expenditures[1])
         IN  [obj |-> [cf EXCEPT !.free_cash_flow = v], ret |-> v]
    ELSE [obj |-> cf, ret |-> cf.free_cash_flow]

\* CashFlow.calculate_fcf of financial_data.py: the record after the call
\* and the value returned
calculate_fcf(cf) ==
    IF IsSet(cf.free_cash_flow)
    THEN [obj |-> cf, ret |-> cf.free_cash_flow]
    ELSE IF IsSet(cf.cash_flow_from_operations) /\ IsSet(cf.capital_expenditures)
         THEN LET v == Some(cf.cash_flow_from_operations[1] + cf.capital_expenditures[1])
              IN  [obj |-> [cf EXCEPT !.free_cash_flow = v], ret |-> v]
         ELSE [obj |-> cf, ret |-> None]

\* CashFlow.calculate_fcf of getValue_all_in_one.py: truthiness tests, and
\* capital_expenditures is subtracted
calculate_fcf_aio(cf) ==
    IF IsSet(cf.free_cash_flow)
    THEN [obj |-> cf, ret |-> cf.free_cash_flow]
    ELSE IF Truthy(cf.cash_flow_from_operations) /\ Truthy(cf.capital_expenditures)
         THEN LET v == Some(cf.cash_flow_from_operations[1] - cf.capital_expenditures[1])
              IN  [obj |-> [cf EXCEPT !.free_cash_flow = v], ret |-> v]
         ELSE [obj |-> cf, ret |-> None]

\* CashFlow.calculate_adjusted_fcf of financial_data.py
calculate_adjusted_fcf(cf) ==
    LET r == calculate_fcf(cf)
        fcf == r.ret
    IN  IF IsSet(fcf) /\ IsSet(r.obj.stock_based_compensation)
        THEN LET v == Some(fcf[1] - r.obj.stock_based_compensation[1])
             IN  [obj |-> [r.obj EXCEPT !.adjusted_fcf = v], ret |-> v]
        ELSE [obj |-> r.obj, ret |-> fcf]

\* CashFlow.calculate_adjusted_fcf of getValue_all_in_one.py
calculate_adjusted_fcf_aio(cf) ==
    LET r == calculate_fcf_aio(cf)
        fcf == r.ret
    IN  IF Truthy(fcf) /\ Truthy(r.obj.stock_based_compensation)
        THEN LET v == Some(fcf[1] - r.obj.stock_based_compensation[1])
             IN  [obj |-> [r.obj EXCEPT !.adjusted_fcf = v], ret |-> v]
        ELSE [obj |-> r.obj, ret |-> None]

-----------------------------------------------------------------------------
(* DebtBreakdown *)

DebtBreakdownFields ==
    {"current_portion_long_term_debt", "current_portion_capital_leases",
     "long_term_debt", "capital_leases", "total_debt", "cash_and_equivalents",
     "net_debt"}

\* DebtBreakdown(): every field defaults to None
DebtBreakdown == [f \in DebtBreakdownFields |-> None]

\* DebtBreakdown.calculate_net_debt of financial_data.py
calculate_net_debt(d) ==
    IF IsSet(d.total_debt) /\ IsSet(d.cash_and_equivalents)
    THEN LET v == Some(d.total_debt[1] - d.cash_and_equivalents[1])
         IN  [obj |-> [d EXCEPT !.net_debt = v], ret |-> v]
    ELSE [obj |-> d, ret |-> None]

\* DebtBreakdown.calculate_net_debt of getValue_all_in_one.py
calculate_net_debt_aio(d) ==
    IF Truthy(d.total_debt) /\ Truthy(d.cash_and_equivalents)
    THEN LET v == Some(d.total_debt[1] - d.cash_and_equivalents[1])
         IN  [obj |-> [d EXCEPT !.net_debt = v], ret |-> v]
    ELSE [obj |-> d, ret |-> None]

-----------------------------------------------------------------------------
(* IncomeStatement, BalanceSheet, MarketData, FinancialPeriod *)

IncomeStatementFields ==
    {"revenues", "gross_profit", "operating_income", "ebitda", "interest_expense",
     "income_tax", "net_income", "eps", "shares_outstanding"}

\* IncomeStatement(): every field defaults to None
IncomeStatement == [f \in IncomeStatementFields |-> None]

BalanceSheetFields ==
    {"cash_and_equivalents", "current_assets", "total_assets", "current_liabilities",
     "total_debt", "equity_value", "shares_outstanding", "minority_interest",
     "preferred_stock", "avg_equity", "avg_assets"}

\* BalanceSheet(): every field defaults to None
BalanceSheet == [f \in BalanceSheetFields |-> None]

MarketDataFields == {"date", "price", "market_cap", "shares_outstanding"}

\* MarketData(): every field defaults to None
MarketData == [f \in MarketDataFields |-> None]

\* FinancialPeriod(period_type, period_name): empty statements, no market data
FinancialPeriod(ptype, name) ==
    [period_type |-> ptype, period_name |-> name, period_end_date |-> None,
     income_statement |-> IncomeStatement, cash_flow |-> CashFlow,
     balance_sheet |-> BalanceSheet, debt_breakdown |-> DebtBreakdown,
     market_data |-> None]

-----------------------------------------------------------------------------
(* FinancialRatios.  A ratio is None or Some(<<numerator, denominator>>);   *)
(* a method's outcome is the value it returns, or the exception it raises. *)

Abs(x) == IF x < 0 THEN -x ELSE x

Returns(v) == [raised |-> "", val |-> v]

Raises(e) == [raised |-> e, val |-> None]

\* a / b as a float division of two present values
Div(a, b) == Some(<<a, b>>)

\* FinancialRatios.__init__
FinancialRatios(period, previous_period) ==
    [period |-> period, previous_period |-> previous_period,
     income |-> period.income_statement, cash_flow |-> period.cash_flow,
     balance |-> period.balance_sheet, debt |-> period.debt_breakdown,
     market |-> period.market_data]

\* `self.market and self.market.market_cap`: a MarketData object is truthy
MarketCapTruthy(r) == r.market # None /\ Truthy(r.market[1].market_cap)

pe_ratio(r) ==
    IF MarketCapTruthy(r) /\ Truthy(r.income.net_income)
    THEN Returns(Div(r.market[1].market_cap[1], r.income.net_income[1]))
    ELSE Returns(None)

ps_ratio(r) ==
    IF MarketCapTruthy(r) /\ Truthy(r.income.revenues)
    THEN Returns(Div(r.market[1].market_cap[1], r.income.revenues[1]))
    ELSE Returns(None)

\* the three margins share one shape: numerator field over revenues.  The
\* all-in-one copy adds a redundant `revenues != 0` to the same truthiness test.
Margin(r, numerator) ==
    IF Truthy(r.income.revenues) /\ Truthy(r.income[numerator])
    THEN Returns(Div(r.income[numerator][1], r.income.revenues[1]))
    ELSE Returns(None)

gross_margin(r) == Margin(r, "gross_profit")

operating_margin(r) == Margin(r, "operating_income")

net_margin(r) == Margin(r, "net_income")

roe(r) ==
    IF r.previous_period = None
    THEN Returns(None)
    ELSE LET curr_eq == r.balance.equity_value
             prev_eq == r.previous_period[1].balance_sheet.equity_value
         IN  IF Truthy(curr_eq) /\ Truthy(prev_eq) /\ Truthy(r.income.net_income)
                /\ curr_eq[1] + prev_eq[1] # 0
             THEN \* net_income / ((curr_eq + prev_eq) / 2)
                  Returns(Div(r.income.net_income[1] * 2, curr_eq[1] + prev_eq[1]))
             ELSE Returns(None)

\* invested capital of roic: |total_debt| + equity_value over the truthy ones
Invested(r) ==
    (IF Truthy(r.debt.total_debt) THEN Abs(r.debt.total_debt[1]) ELSE 0)
    + (IF Truthy(r.balance.equity_value) THEN r.balance.equity_value[1] ELSE 0)

\* nopat / invested, with nopat = operating_income * (1 - tax_rate) and
\* tax_rate the fraction <<t, u>>
RoicValue(r, tax_rate) ==
    IF Invested(r) # 0
    THEN Returns(Div(r.income.operating_income[1] * (tax_rate[2] - tax_rate[1]),
                     tax_rate[2] * Invested(r)))
    ELSE Returns(None)

\* FinancialRatios.roic of financial_data.py; tax_rate is None or Some(<<t, u>>)
roic(r, tax_rate) ==
    IF ~Truthy(r.income.operating_income)
    THEN Returns(None)
    ELSE IF tax_rate = None /\ Truthy(r.income.income_tax)
         THEN RoicValue(r, <<Abs(r.income.income_tax[1]), Abs(r.income.operating_income[1])>>)
         ELSE IF tax_rate = None THEN Returns(None) ELSE RoicValue(r, tax_rate[1])

\* FinancialRatios.roic of getValue_all_in_one.py: the tax rate without abs()
roic_aio(r, tax_rate) ==
    IF ~Truthy(r.income.operating_income)
    THEN Returns(None)
    ELSE IF tax_rate = None /\ Truthy(r.income.income_tax)
         THEN RoicValue(r, <<r.income.income_tax[1], r.income.operating_income[1]>>)
         ELSE IF tax_rate = None THEN Returns(None) ELSE RoicValue(r, tax_rate[1])

\* operating_income is not tested: dividing None raises TypeError
interest_coverage(r) ==
    IF Truthy(r.income.interest_expense)
    THEN IF r.income.operating_income = None
         THEN Raises("TypeError")
         ELSE Returns(Div(r.income.operating_income[1], Abs(r.income.interest_expense[1])))
    ELSE Returns(None)

RatioNames ==
    {"pe_ratio", "ps_ratio", "gross_margin", "operating_margin", "net_margin",
     "roe", "roic", "interest_coverage"}

\* one ratio method by name, roic with its default argument
Ratio(m, r, name) ==
    CASE name = "pe_ratio" -> pe_ratio(r)
      [] name = "ps_ratio" -> ps_ratio(r)
      [] name = "gross_margin" -> gross_margin(r)
      [] name = "operating_margin" -> operating_margin(r)
      [] name = "net_margin" -> net_margin(r)
      [] name = "roe" -> roe(r)
      [] name = "roic" -> IF m = "financial_data" THEN roic(r, None) ELSE roic_aio(r, None)
      [] name = "interest_coverage" -> interest_coverage(r)

\* the dict literal evaluates the eight calls in order; an exception of any
\* of them leaves calculate_all_ratios
calculate_all_ratios(m, r) ==
    IF \E name \in RatioNames : Ratio(m, r, name).raised # ""
    THEN Raises("TypeError")
    ELSE Returns([name \in RatioNames |-> Ratio(m, r, name).val])

-----------------------------------------------------------------------------
(* Strings are sequences of one-character strings. *)

DigitChars == <<"0", "1", "2", "3", "4", "5", "6", "7", "8", "9">>

UpperChars ==
    <<"A", "B", "C", "D", "E", "F", "G", "H", "I", "J", "K", "L", "M",
      "N", "O", "P", "Q", "R", "S", "T", "U", "V", "W", "X", "Y", "Z">>

LowerChars ==
    <<"a", "b", "c", "d", "e", "f", "g", "h", "i", "j", "k", "l", "m",
      "n", "o", "p", "q", "r", "s", "t", "u", "v", "w", "x", "y", "z">>

Range(seq) == {seq[i] : i \in DOMAIN seq}

IsDigit(c) == c \in Range(DigitChars)

IsSpace(c) == c \in {" ", "\t", "\n", "\r"}

\* int() of one digit
DigitVal(c) == (CHOOSE i \in DOMAIN DigitChars : DigitChars[i] = c) - 1

\* str.upper() of one character
UpperChar(c) ==
    IF c \in Range(LowerChars)
    THEN UpperChars[CHOOSE i \in DOMAIN LowerChars : LowerChars[i] = c]
    ELSE c

\* str.upper()
Upper(str) == [i \in DOMAIN str |-> UpperChar(str[i])]

\* str.strip(): leading and trailing whitespace removed
Strip(str) ==
    LET keep == {i \in DOMAIN str : ~IsSpace(str[i])}
    IN  IF keep = {} THEN <<>>
        ELSE LET lo == CHOOSE i \in keep : \A j \in keep : i <= j
                 hi == CHOOSE i \in keep : \A j \in keep : j <= i
             IN  SubSeq(str, lo, hi)

\* a sequence given as a function, as the tuple of its elements
AsTuple(seq) == SubSeq(seq, 1, Len(seq))

\* the number of occurrences of a character: str.count(ch)
Count(str, ch) == Cardinality({i \in DOMAIN str : str[i] = ch})

\* `sub in str`
Contains(str, sub) ==
    \E i \in 0..(Len(str) - Len(sub)) : SubSeq(str, i + 1, i + Len(sub)) = sub

\* the elements of seq at the indices idx, in order
Pick(seq, idx) ==
    AsTuple([k \in 1..Cardinality(idx) |->
                seq[CHOOSE i \in idx : Cardinality({j \in idx : j < i}) = k - 1]])

\* str.replace(ch, '')
Remove(str, ch) == Pick(str, {i \in DOMAIN str : str[i] # ch})

\* str.split(ch): the pieces between the occurrences of ch
Split(str, ch) ==
    LET seps == Pick([i \in 1..Len(str) |-> i], {i \in DOMAIN str : str[i] = ch})
        n == Len(seps)
    IN  AsTuple([k \in 1..(n + 1) |->
                    SubSeq(str, IF k = 1 THEN 1 ELSE seps[k - 1] + 1,
                                IF k = n + 1 THEN Len(str) ELSE seps[k] - 1)])

\* re.split(r'\t+', line): the pieces between the runs of tabs, which are the
\* pieces between the tabs without the empty ones strictly inside
SplitTabs(line) ==
    LET pieces == Split(line, "\t")
    IN  Pick(pieces, {k \in DOMAIN pieces : k = 1 \/ k = Len(pieces) \/ pieces[k] # <<>>})

IsLetter(c) == c \in Range(UpperChars) \cup Range(LowerChars)

\* str.isalpha(): at least one character, and letters only
IsAlpha(str) == str # <<>> /\ \A i \in DOMAIN str : IsLetter(str[i])

\* str.isupper(): at least one letter, and no lower-case letter
IsUpper(str) ==
    /\ \E i \in DOMAIN str : IsLetter(str[i])
    /\ \A i \in DOMAIN str : str[i] \notin Range(LowerChars)

\* int() of a string of four digits
Int4(str) ==
    DigitVal(str[1]) * 1000 + DigitVal(str[2]) * 100 + DigitVal(str[3]) * 10
    + DigitVal(str[4])

\* str() of a year of four digits
YearStr(y) ==
    <<DigitChars[(y \div 1000) + 1], DigitChars[((y \div 100) % 10) + 1],
      DigitChars[((y \div 10) % 10) + 1], DigitChars[(y % 10) + 1]>>

\* f"{year} Q{quarter}"
QuarterName(y, q) == YearStr(y) \o <<" ", "Q", DigitChars[q + 1]>>

-----------------------------------------------------------------------------
(* PeriodManager *)

\* re.match(r'(\d{4})\s*Q(\d)', name): the position of the Q when the name
\* starts with four digits, whitespace, Q and a digit (anything may follow);
\* 0 when it does not match
QuarterMatch(name) ==
    IF Len(name) >= 6 /\ \A i \in 1..4 : IsDigit(name[i])
    THEN LET qs == {k \in 5..(Len(name) - 1) :
                       /\ \A i \in 5..(k - 1) : IsSpace(name[i])
                       /\ name[k] = "Q"
                       /\ IsDigit(name[k + 1])}
         IN  IF qs = {} THEN 0 ELSE CHOOSE k \in qs : TRUE
    ELSE 0

\* PeriodManager.parse_period_info: <<kind, year, quarter>>, kind "" for None
parse_period_info(period_name) ==
    LET name == Strip(period_name)
        k == QuarterMatch(name)
    IN  IF Upper(name) = <<"T", "T", "M">>
        THEN <<"TTM", 0, None>>
        ELSE IF k # 0
        THEN <<"QUARTERLY", Int4(name), Some(DigitVal(name[k + 1]))>>
        ELSE IF Len(name) = 4 /\ \A i \in 1..4 : IsDigit(name[i])
        THEN <<"ANNUAL", Int4(name), None>>
        ELSE <<"", 0, None>>

\* sort_key of _sort_periods: (year, quarter if quarter else 0)
sort_key(p) ==
    LET info == parse_period_info(p.period_name)
    IN  <<info[2], IF Truthy(info[3]) THEN info[3][1] ELSE 0>>

\* tuple comparison a < b of two sort keys
KeyLess(a, b) == a[1] < b[1] \/ (a[1] = b[1] /\ a[2] < b[2])

\* a descending sort that turns the periods with an equal key around
SortedPositionTiesReversed(keys, i) ==
    1 + Cardinality({j \in DOMAIN keys :
                        \/ KeyLess(keys[i], keys[j])
                        \/ (j > i /\ keys[j] = keys[i])})

\* sorted(periods, key=sort_key, reverse=True): descending and stable, so the
\* i-th period goes behind every period with a larger key and behind the
\* earlier periods with an equal key
SortedPosition(keys, i) ==
    1 + Cardinality({j \in DOMAIN keys :
                        \/ KeyLess(keys[i], keys[j])
                        \/ (j < i /\ keys[j] = keys[i])})

\* PeriodManager._sort_periods
sort_periods(periods) ==
    LET keys == AsTuple([i \in DOMAIN periods |-> sort_key(periods[i])])
        from == AsTuple([k \in DOMAIN periods |->
                            CHOOSE i \in DOMAIN periods : SortedPosition(keys, i) = k])
    IN  AsTuple([k \in DOMAIN periods |-> periods[from[k]]])

RECURSIVE SumFrom(_, _, _, _)
\* the loop of _sum_field from period i on: <<total, count>>
SumFrom(periods, obj_name, field_name, i) ==
    IF i > Len(periods) THEN <<0, 0>>
    ELSE LET val == periods[i][obj_name][field_name]
             rest == SumFrom(periods, obj_name, field_name, i + 1)
         IN  IF IsSet(val) THEN <<val[1] + rest[1], rest[2] + 1>> ELSE rest

\* PeriodManager._sum_field
sum_field(periods, obj_name, field_name) ==
    LET tc == SumFrom(periods, obj_name, field_name, 1)
    IN  IF tc[2] > 0 THEN Some(tc[1]) ELSE None

\* periods[:n]
Take(periods, n) == SubSeq(periods, 1, IF n < Len(periods) THEN n ELSE Len(periods))

\* the fields calculate_ttm_from_quarters of financial_data.py sums
SummedIncomeFields ==
    {"revenues", "gross_profit", "operating_income", "ebitda", "interest_expense",
     "income_tax", "net_income", "eps"}

SummedCashFlowFields ==
    {"cash_flow_from_operations", "capital_expenditures", "free_cash_flow",
     "stock_based_compensation", "depreciation_amortization",
     "change_in_working_capital", "dividend_paid", "repurchase_of_common_stock"}

\* the quarters calculate_ttm_from_quarters works on: the first four of
\* quarterly_data as delivered, then sorted
TtmQuarters(c) == sort_periods(Take(c.quarterly_data, 4))

\* the TTM period calculate_ttm_from_quarters of financial_data.py builds
\* from the sorted quarters
TtmPeriod(sorted_q) ==
    LET inc == [f \in IncomeStatementFields |->
                   IF f \in SummedIncomeFields
                   THEN sum_field(sorted_q, "income_statement", f)
                   ELSE sorted_q[1].income_statement.shares_outstanding]
        cf == [f \in CashFlowFields |->
                  IF f \in SummedCashFlowFields
                  THEN sum_field(sorted_q, "cash_flow", f)
                  ELSE None]
    IN  [FinancialPeriod("TTM", <<"T", "T", "M">>) EXCEPT
            !.income_statement = inc,
            !.cash_flow = calculate_adjusted_fcf(calculate_fcf(cf).obj).obj,
            !.balance_sheet = sorted_q[1].balance_sheet,
            !.debt_breakdown = sorted_q[1].debt_breakdown,
            !.market_data = sorted_q[1].market_data]

\* PeriodManager.calculate_ttm_from_quarters of financial_data.py: None, or
\* Some(the TTM period)
calculate_ttm_from_quarters(c) ==
    IF Len(c.quarterly_data) < 4 THEN None ELSE Some(TtmPeriod(TtmQuarters(c)))

\* the fields the all-in-one copy sums
SummedIncomeFields_aio == {"revenues", "gross_profit", "operating_income", "net_income"}

SummedCashFlowFields_aio == {"cash_flow_from_operations", "free_cash_flow"}

\* the TTM period of getValue_all_in_one.py: four income fields and two
\* cash-flow fields are summed, eps is the most recent quarter's, the other
\* fields stay None
TtmPeriod_aio(sorted_quarters) ==
    LET inc == [f \in IncomeStatementFields |->
                   IF f \in SummedIncomeFields_aio
                   THEN sum_field(sorted_quarters, "income_statement", f)
                   ELSE IF f = "eps" THEN sorted_quarters[1].income_statement.eps
                   ELSE None]
        cf == [f \in CashFlowFields |->
                  IF f \in SummedCashFlowFields_aio
                  THEN sum_field(sorted_quarters, "cash_flow", f)
                  ELSE None]
    IN  [FinancialPeriod("TTM", <<"T", "T", "M">>) EXCEPT
            !.income_statement = inc,
            !.cash_flow = cf,
            !.balance_sheet = sorted_quarters[1].balance_sheet,
            !.market_data = sorted_quarters[1].market_data]

\* PeriodManager.calculate_ttm_from_quarters of getValue_all_in_one.py
calculate_ttm_from_quarters_aio(c) ==
    IF Len(c.quarterly_data) < 4 THEN None ELSE Some(TtmPeriod_aio(TtmQuarters(c)))

\* a last full year that is the most recent quarter's year whatever the quarter
SameYearOf(info) == Some(info[2])

\* the end of identify_last_full_year, info being parse_period_info of the
\* first of the sorted quarters: `if quarter == 4: return year`, else
\* `return year - 1`
LastFullYearOf(info) == IF info[3] = Some(4) THEN Some(info[2]) ELSE Some(info[2] - 1)

\* PeriodManager.identify_last_full_year (the same in both copies): None, or
\* Some(year)
identify_last_full_year(c) ==
    IF c.quarterly_data = <<>>
    THEN IF c.annual_data # <<>>
         THEN Some(parse_period_info(sort_periods(c.annual_data)[1].period_name)[2])
         ELSE None
    ELSE LastFullYearOf(parse_period_info(sort_periods(c.quarterly_data)[1].period_name))

\* CompanyFinancials(ticker, company_name): no TTM and no periods.  id stands
\* for the identity of the object; load_company sets it for the objects it returns.
CompanyFinancials(ticker, company_name) ==
    [id |-> 0, ticker |-> ticker, company_name |-> company_name,
     currency |-> <<"U", "S", "D">>, last_updated |-> None,
     ttm |-> None, quarterly_data |-> <<>>, annual_data |-> <<>>]

-----------------------------------------------------------------------------
(* FinancialDataParser *)

\* "Income statement"
IncomeStatementLabel == <<"I", "n", "c", "o", "m", "e", " ", "s", "t", "a", "t", "e", "m", "e", "n", "t">>

\* "UNKNOWN"
UnknownTicker == <<"U", "N", "K", "N", "O", "W", "N">>

\* field_map of financial_data.py: label, statement, field
FieldMapRows ==
    <<<<<<"R", "e", "v", "e", "n", "u", "e", "s">>,
        "income_statement", "revenues">>,
      <<<<"G", "r", "o", "s", "s", " ", "p", "r", "o", "f", "i", "t">>,
        "income_statement", "gross_profit">>,
      <<<<"O", "p", "e", "r", "a", "t", "i", "n", "g", " ", "i", "n", "c", "o", "m", "e">>,
        "income_statement", "operating_income">>,
      <<<<"E", "B", "I", "T", "D", "A">>,
        "income_statement", "ebitda">>,
      <<<<"I", "n", "t", "e", "r", "e", "s", "t", " ", "E", "x", "p", "e", "n", "s", "e">>,
        "income_statement", "interest_expense">>,
      <<<<"I", "n", "c", "o", "m", "e", " ", "T", "a", "x">>,
        "income_statement", "income_tax">>,
      <<<<"N", "e", "t", " ", "I", "n", "c", "o", "m", "e">>,
        "income_statement", "net_income">>,
      <<<<"E", "P", "S">>,
        "income_statement", "eps">>,
      <<<<"C", "a", "s", "h", " ", "f", "l", "o", "w", " ", "f", "r", "o", "m", " ", "o", "p", "e", "r", "a", "t", "i", "o", "n", "s">>,
        "cash_flow", "cash_flow_from_operations">>,
      <<<<"C", "a", "p", "i", "t", "a", "l", " ", "e", "x", "p", "e", "n", "d", "i", "t", "u", "r", "e", "s">>,
        "cash_flow", "capital_expenditures">>,
      <<<<"F", "r", "e", "e", " ", "C", "a", "s", "h", " ", "f", "l", "o", "w">>,
        "cash_flow", "free_cash_flow">>,
      <<<<"S", "t", "o", "c", "k", " ", "b", "a", "s", "e", "d", " ", "c", "o", "m", "p", "e", "n", "s", "a", "t", "i", "o", "n">>,
        "cash_flow", "stock_based_compensation">>,
      <<<<"D", "e", "p", "r", "e", "c", "i", "a", "t", "i", "o", "n", " ", "&", " ", "A", "m", "o", "r", "t", "i", "z", "a", "t", "i", "o", "n">>,
        "cash_flow", "depreciation_amortization">>,
      <<<<"C", "h", "a", "n", "g", "e", " ", "i", "n", " ", "W", "o", "r", "k", "i", "n", "g", " ", "C", "a", "p", "i", "t", "a", "l">>,
        "cash_flow", "change_in_working_capital">>,
      <<<<"D", "i", "v", "i", "d", "e", "n", "d", " ", "p", "a", "i", "d">>,
        "cash_flow", "dividend_paid">>,
      <<<<"R", "e", "p", "u", "r", "c", "h", "a", "s", "e", " ", "o", "f", " ", "C", "o", "m", "m", "o", "n", " ", "S", "t", "o", "c", "k">>,
        "cash_flow", "repurchase_of_common_stock">>>>

\* the rows of FieldMapRows that field_map of getValue_all_in_one.py has
FieldMapRows_aio == {1, 2, 3, 7, 8, 9, 11}

\* field_map of the copy m, as the set of its rows
field_map(m) ==
    {FieldMapRows[i] : i \in IF m = "financial_data" THEN DOMAIN FieldMapRows
                             ELSE FieldMapRows_aio}

\* a float() that reads a cell that is no number as 0
ParseFloatOrZero(cell) == Some(0)

RECURSIVE DigitsVal(_, _)
\* the number written by the first n characters of a string of digits
DigitsVal(str, n) ==
    IF n = 0 THEN 0 ELSE DigitsVal(str, n - 1) * 10 + DigitVal(str[n])

\* float(cell.replace(',', '')): Some(value), or None for ValueError.  The
\* cells of the model are whole numbers (with commas, blanks or a sign) or
\* text that is no number; decimal points, exponents, underscores, inf and
\* nan are not among them.
ParseFloat(cell) ==
    LET t == Strip(Remove(cell, ","))
        signed == t # <<>> /\ t[1] \in {"-", "+"}
        digits == IF signed THEN SubSeq(t, 2, Len(t)) ELSE t
    IN  IF digits # <<>> /\ \A i \in DOMAIN digits : IsDigit(digits[i])
        THEN Some((IF signed /\ t[1] = "-" THEN -1 ELSE 1) * DigitsVal(digits, Len(digits)))
        ELSE None

\* the type of a header column: PeriodType.TTM, QUARTERLY or ANNUAL
HeaderPeriodType(period_name) ==
    IF Contains(Upper(period_name), <<"T", "T", "M">>) THEN "TTM"
    ELSE IF Contains(period_name, <<"Q">>) THEN "Q"
    ELSE "Y"

\* the periods after one data row: a row with a mapped label sets its field
\* on the periods under its cells, a cell that is no number sets nothing
ApplyRow(m, periods, row) ==
    IF row[1] = <<>> THEN periods
    ELSE LET hits == {e \in field_map(m) : e[1] = Strip(row[1])}
         IN  IF hits = {} THEN periods
             ELSE LET e == CHOOSE h \in hits : TRUE
                  IN  [k \in DOMAIN periods |->
                          IF k + 1 <= Len(row) /\ IsSet(ParseFloat(row[k + 1]))
                          THEN [periods[k] EXCEPT ![e[2]][e[3]] = ParseFloat(row[k + 1])]
                          ELSE periods[k]]

RECURSIVE ApplyRows(_, _, _, _)
\* the periods after the data rows from row i on
ApplyRows(m, periods, data, i) ==
    IF i > Len(data) THEN periods
    ELSE ApplyRows(m, AsTuple(ApplyRow(m, periods, data[i])), data, i + 1)

\* the periods of one type, last header column first
OfTypeReversed(periods, ptype) ==
    LET idx == {k \in DOMAIN periods : periods[k].period_type = ptype}
    IN  AsTuple([j \in 1..Cardinality(idx) |->
                    periods[CHOOSE i \in idx : Cardinality({k \in idx : k > i}) = j - 1]])

\* the periods of one type, in header order
OfType(periods, ptype) ==
    Pick(periods, {k \in DOMAIN periods : periods[k].period_type = ptype})

\* the lines of the stripped text, each split at its runs of tabs
SplitRows(text) ==
    LET lines == Split(Strip(text), "\n")
    IN  AsTuple([i \in DOMAIN lines |-> SplitTabs(lines[i])])

\* the rows whose first cell has "Income statement" in it
HeaderRows(data) ==
    {i \in DOMAIN data : data[i][1] # <<>> /\ Contains(data[i][1], IncomeStatementLabel)}

\* one empty period for every header cell after the first
HeaderPeriods(headers) ==
    AsTuple([k \in 1..(Len(headers) - 1) |->
                FinancialPeriod(HeaderPeriodType(Strip(headers[k + 1])),
                                Strip(headers[k + 1]))])

\* the periods put on the company by their type: the last TTM period, the
\* quarterly periods, and (in financial_data.py only) the annual periods
Classified(m, c, periods) ==
    LET ttms == OfType(periods, "TTM")
    IN  [c EXCEPT !.ttm = IF ttms = <<>> THEN None ELSE Some(ttms[Len(ttms)]),
                  !.quarterly_data = OfType(periods, "Q"),
                  !.annual_data = IF m = "financial_data"
                                  THEN OfType(periods, "Y") ELSE <<>>]

\* the TTM derived from the quarters when the text has no TTM column
WithDerivedTtm(m, c) ==
    IF c.ttm = None /\ Len(c.quarterly_data) >= 4
    THEN [c EXCEPT !.ttm = IF m = "financial_data"
                           THEN calculate_ttm_from_quarters(c)
                           ELSE calculate_ttm_from_quarters_aio(c)]
    ELSE c

\* parse_from_text from the header row on
ParseTable(m, data, header_row_idx, c) ==
    WithDerivedTtm(m, Classified(m, c,
        ApplyRows(m, HeaderPeriods(data[header_row_idx]), data, header_row_idx + 1)))

\* a parser that takes the first line for the header row
ParseRowsFromFirstLine(m, data, found, c) == ParseTable(m, data, 1, c)

\* parse_from_text on the split rows
ParseRows(m, data, found, c) ==
    IF found = {} THEN c
    ELSE ParseTable(m, data, CHOOSE i \in found : \A j \in found : i <= j, c)

\* FinancialDataParser.parse_from_text of the copy m
parse_from_text(m, text, ticker) ==
    ParseRows(m, SplitRows(text), HeaderRows(SplitRows(text)),
              CompanyFinancials(ticker, ticker))

-----------------------------------------------------------------------------
(* FinancialDataAPI and GetValueDataManager *)

\* dict.get(key, default)
Get(dict, key, default) == IF key \in DOMAIN dict THEN dict[key] ELSE default

\* FinancialDataAPI.fetch_company (fetch_complete_data in the all-in-one
\* copy) on the profile response: None for a failed request, else a list of
\* profiles.  The company of a non-empty profile is returned with the
\* ticker as passed (upper-cased and stripped in financial_data.py only);
\* the statement requests are taken to deliver nothing, which leaves the
\* company without periods.
fetch_company(m, symbol, profile, now) ==
    LET sym == IF m = "financial_data" THEN Strip(Upper(symbol)) ELSE symbol
    IN  IF profile = None \/ profile[1] = <<>> THEN None
        ELSE Some([CompanyFinancials(sym, Get(profile[1][1], "companyName", sym))
                      EXCEPT !.currency = Get(profile[1][1], "currency", <<"U", "S", "D">>),
                             !.last_updated = Some(now)])

\* the adapter load_company chooses for a source string: financial_data.py
\* takes at most 6 characters that are letters once the dots are removed,
\* getValue_all_in_one.py at most 5 characters with isupper()
Route(m, api, source_str) ==
    IF /\ IF m = "financial_data"
          THEN Len(source_str) <= 6 /\ IsAlpha(Remove(source_str, "."))
          ELSE Len(source_str) <= 5 /\ IsUpper(source_str)
       /\ api
    THEN "api"
    ELSE IF Contains(source_str, <<"\t">>) \/ Count(source_str, "\n") > 3
    THEN "text"
    ELSE "none"

\* a cache that keeps the entry a ticker already has
StoreKeepingFirst(cache, c) ==
    [t \in DOMAIN cache \cup {c.ticker} |-> IF t \in DOMAIN cache THEN cache[t] ELSE c]

\* self.companies[company.ticker] = company
StoreOverwriting(cache, c) ==
    [t \in DOMAIN cache \cup {c.ticker} |-> IF t = c.ticker THEN c ELSE cache[t]]

\* the cache after a load that returned ret
Store(cache, ret) == IF ret = None THEN cache ELSE StoreOverwriting(cache, ret[1])

\* a load that writes the adapter's company into the object of the first load
LoadedInPlace(made, id) == IF made = None THEN None ELSE Some([made[1] EXCEPT !.id = 1])

\* the object a successful load returns: the adapter's company, with its
\* identity
Loaded(made, id) == IF made = None THEN None ELSE Some([made[1] EXCEPT !.id = id])

\* what a load_company call leaves: the adapter used, the value returned
\* and the cache afterwards
Outcome(route, ret, cache) == [route |-> route, ret |-> ret, companies |-> Store(cache, ret)]

\* the branch of load_company for the adapter route
Dispatch(m, route, cache, source_str, ticker, profile, id) ==
    Outcome(route,
            Loaded(CASE route = "api" ->
                          fetch_company(m, IF m = "financial_data" THEN Upper(source_str)
                                           ELSE source_str, profile, id)
                     [] route = "text" ->
                          Some(parse_from_text(m, source_str,
                                  IF ticker = None \/ ticker[1] = <<>>
                                  THEN UnknownTicker ELSE ticker[1]))
                     [] OTHER -> None,
                   id),
            cache)

\* GetValueDataManager.load_company of the copy m.  ticker is None or
\* Some(string); id is the identity of the company object a successful load
\* creates.
load_company(m, api, cache, source_str, ticker, profile, id) ==
    Dispatch(m, Route(m, api, source_str), cache, source_str, ticker, profile, id)

-----------------------------------------------------------------------------
(* FinancialDataAPI.fetch_company of financial_data.py, with the statement *)
(* requests.  A JSON value of a response is None, a number or a string; a  *)
(* record of a response is a function from its keys to such values, its    *)
(* 'date', 'calendarYear' and 'period' being strings.  The numbers of the  *)
(* model are whole multiples of a million, so that the stored values are   *)
(* whole numbers, and sums of two equity values are even.                  *)

\* 1_000_000
Million == 1000000

PyNone == [kind |-> "none"]

Num(n) == [kind |-> "num", n |-> n]

Text(str) == [kind |-> "str", str |-> str]

\* item.get(key): None for a key that is missing
RawGet(item, key) == Get(item, key, PyNone)

\* the truth value of a JSON value: None, 0 and "" are false
RawTruthy(v) ==
    CASE v.kind = "num" -> v.n # 0
      [] v.kind = "str" -> v.str # <<>>
      [] OTHER -> FALSE

\* `a or b`
RawOr(a, b) == IF RawTruthy(a) THEN a ELSE b

\* float(value) / 1_000_000 of a string float() has read, None of one it has not
Scaled(number) == IF number = None THEN None ELSE Some(number[1] \div Million)

\* FinancialDataAPI._to_millions: None for None; float(value) / 1_000_000;
\* None when float() raises ValueError or TypeError.  float() of a string
\* reads the numbers ParseFloat reads, without removing commas.
to_millions(value) ==
    IF value.kind = "none" THEN None
    ELSE IF value.kind = "num" THEN Some(value.n \div Million)
    ELSE IF Contains(value.str, <<",">>) THEN None
    ELSE Scaled(ParseFloat(value.str))

\* eps is stored as delivered; the responses of the model deliver a number
\* or None for it
StoredEps(v) == IF v.kind = "num" THEN Some(v.n) ELSE None

\* the key of a response record behind a field that is scaled directly
RawKey(field) ==
    CASE field = "revenues" -> "revenue"
      [] field = "gross_profit" -> "grossProfit"
      [] field = "operating_income" -> "operatingIncome"
      [] field = "ebitda" -> "ebitda"
      [] field = "interest_expense" -> "interestExpense"
      [] field = "income_tax" -> "incomeTaxExpense"
      [] field = "net_income" -> "netIncome"
      [] field = "cash_and_equivalents" -> "cashAndCashEquivalents"
      [] field = "current_assets" -> "totalCurrentAssets"
      [] field = "total_assets" -> "totalAssets"
      [] field = "current_liabilities" -> "totalCurrentLiabilities"
      [] field = "total_debt" -> "totalDebt"
      [] field = "equity_value" -> "totalStockholdersEquity"
      [] field = "minority_interest" -> "minorityInterest"
      [] field = "preferred_stock" -> "preferredStock"
      [] field = "current_portion_long_term_debt" -> "shortTermDebt"
      [] field = "current_portion_capital_leases" -> "capitalLeaseObligations"
      [] field = "long_term_debt" -> "longTermDebt"
      [] field = "capital_leases" -> "capitalLeaseObligations"
      [] field = "net_debt" -> "netDebt"
      [] field = "cash_flow_from_operations" -> "operatingCashFlow"
      [] field = "capital_expenditures" -> "capitalExpenditure"
      [] field = "free_cash_flow" -> "freeCashFlow"
      [] field = "stock_based_compensation" -> "stockBasedCompensation"
      [] field = "depreciation_amortization" -> "depreciationAndAmortization"
      [] field = "change_in_working_capital" -> "changeInWorkingCapital"
      [] field = "dividend_paid" -> "dividendsPaid"
      [] field = "repurchase_of_common_stock" -> "commonStockRepurchased"

\* IncomeStatement(...) of an income-statement record
IncomeStatementOf(inc) ==
    [f \in IncomeStatementFields |->
        CASE f = "eps" -> StoredEps(RawOr(RawGet(inc, "epsdiluted"), RawGet(inc, "eps")))
          [] f = "shares_outstanding" ->
                to_millions(RawOr(RawGet(inc, "weightedAverageShsOutDil"),
                                  RawGet(inc, "weightedAverageShsOut")))
          [] OTHER -> to_millions(RawGet(inc, RawKey(f)))]

\* BalanceSheet(...) of a balance-sheet record, shares being the value
\* handed to _to_millions for shares_outstanding
BalanceSheetOf(bs_data, shares) ==
    [f \in BalanceSheetFields |->
        CASE f = "shares_outstanding" -> to_millions(shares)
          [] f \in {"avg_equity", "avg_assets"} -> None
          [] OTHER -> to_millions(RawGet(bs_data, RawKey(f)))]

\* if period.debt_breakdown.net_debt is None: calculate_net_debt()
WithNetDebt(d) == IF d.net_debt = None THEN calculate_net_debt(d).obj ELSE d

\* DebtBreakdown(...) of a balance-sheet record, net_debt derived when the
\* record has none
DebtBreakdownOf(bs_data) ==
    WithNetDebt([f \in DebtBreakdownFields |-> to_millions(RawGet(bs_data, RawKey(f)))])

\* CashFlow(...) of a cash-flow record, then calculate_fcf() and
\* calculate_adjusted_fcf()
CashFlowOf(cf_data) ==
    calculate_adjusted_fcf(calculate_fcf(
        [f \in CashFlowFields |->
            IF f = "adjusted_fcf" THEN None
            ELSE to_millions(RawGet(cf_data, RawKey(f)))]).obj).obj

\* item.get('date', ''), and likewise for 'calendarYear' and 'period'
StrGet(item, key) == Get(item, key, <<>>)

\* {item.get('date', ''): item for item in items}.get(date_str, {}): the last
\* record with the date, the empty record when there is none
ByDate(items, date_str) ==
    IF \A i \in DOMAIN items : StrGet(items[i], "date") # date_str THEN <<>>
    ELSE items[CHOOSE i \in DOMAIN items :
                  /\ StrGet(items[i], "date") = date_str
                  /\ \A j \in DOMAIN items : StrGet(items[j], "date") = date_str => j <= i]

\* the period of one income-statement record inc, of the type and name
\* given, with the balance-sheet record bs_data and the cash-flow record
\* cf_data of its date; shares is the value scaled into the balance sheet's
\* shares_outstanding
PeriodOf(ptype, name, inc, bs_data, cf_data, shares) ==
    [FinancialPeriod(ptype, name) EXCEPT
        !.income_statement = IncomeStatementOf(inc),
        !.balance_sheet = BalanceSheetOf(bs_data, shares),
        !.debt_breakdown = DebtBreakdownOf(bs_data),
        !.cash_flow = CashFlowOf(cf_data)]

\* the annual period of the income record inc: named str(year), or
\* date_str[:4] without a year; the share count of the balance sheet is
\* bs_data.get('commonStock') or inc.get('weightedAverageShsOutDil')
AnnualPeriod(inc, date_str, year, bs_data, cf_data) ==
    PeriodOf("Y", IF year # <<>> THEN year ELSE Take(date_str, 4), inc, bs_data, cf_data,
             RawOr(RawGet(bs_data, "commonStock"), RawGet(inc, "weightedAverageShsOutDil")))

\* the annual period built from one annual income-statement record
AnnualPeriodOf(inc, annual_balance, annual_cashflow) ==
    AnnualPeriod(inc, StrGet(inc, "date"), StrGet(inc, "calendarYear"),
                 ByDate(annual_balance, StrGet(inc, "date")),
                 ByDate(annual_cashflow, StrGet(inc, "date")))

\* the quarterly period of the income record inc: named f"{year} {period_str}",
\* or date_str[:7] without a period; the share count of the balance sheet
\* is bs_data.get('commonStock')
QuarterlyPeriod(inc, date_str, period_str, bs_data, cf_data) ==
    PeriodOf("Q", IF period_str # <<>>
                  THEN StrGet(inc, "calendarYear") \o <<" ">> \o period_str
                  ELSE Take(date_str, 7),
             inc, bs_data, cf_data, RawGet(bs_data, "commonStock"))

\* the quarterly period built from one quarterly income-statement record
QuarterlyPeriodOf(inc, quarterly_balance, quarterly_cashflow) ==
    QuarterlyPeriod(inc, StrGet(inc, "date"), StrGet(inc, "period"),
                    ByDate(quarterly_balance, StrGet(inc, "date")),
                    ByDate(quarterly_cashflow, StrGet(inc, "date")))

\* the mean of two present values when both are present
MeanOf(a, b, old) == IF IsSet(a) /\ IsSet(b) THEN Some((a[1] + b[1]) \div 2) ELSE old

\* averages that pair a period with the one before it in the list
calculate_averages_backwards(annual_data) ==
    AsTuple([i \in DOMAIN annual_data |->
        IF i > 1
        THEN [annual_data[i] EXCEPT
                !.balance_sheet.avg_equity =
                    MeanOf(annual_data[i].balance_sheet.equity_value,
                           annual_data[i - 1].balance_sheet.equity_value, @),
                !.balance_sheet.avg_assets =
                    MeanOf(annual_data[i].balance_sheet.total_assets,
                           annual_data[i - 1].balance_sheet.total_assets, @)]
        ELSE annual_data[i]])

\* FinancialDataAPI._calculate_averages: every period but the last of the
\* list is paired with the next one
calculate_averages(annual_data) ==
    AsTuple([i \in DOMAIN annual_data |->
        IF i + 1 <= Len(annual_data)
        THEN [annual_data[i] EXCEPT
                !.balance_sheet.avg_equity =
                    MeanOf(annual_data[i].balance_sheet.equity_value,
                           annual_data[i + 1].balance_sheet.equity_value, @),
                !.balance_sheet.avg_assets =
                    MeanOf(annual_data[i].balance_sheet.total_assets,
                           annual_data[i + 1].balance_sheet.total_assets, @)]
        ELSE annual_data[i]])

\* one call of _request by fetch_company: the endpoint with the symbol, and
\* the 'period' and 'limit' parameters (None for the profile request)
Request(endpoint, symbol, period, limit) ==
    [endpoint |-> endpoint, symbol |-> symbol, period |-> period, limit |-> limit]

\* a fetch that asks for the annual statements only
AnnualRequestsOnly(symbol, num_years) ==
    <<Request("/income-statement/", symbol, Some("annual"), Some(num_years + 1)),
      Request("/balance-sheet-statement/", symbol, Some("annual"), Some(num_years + 1)),
      Request("/cash-flow-statement/", symbol, Some("annual"), Some(num_years + 1))>>

\* the six statement requests of fetch_company, in the order it makes them
StatementRequests(symbol, num_years) ==
    <<Request("/income-statement/", symbol, Some("annual"), Some(num_years + 1)),
      Request("/balance-sheet-statement/", symbol, Some("annual"), Some(num_years + 1)),
      Request("/cash-flow-statement/", symbol, Some("annual"), Some(num_years + 1)),
      Request("/income-statement/", symbol, Some("quarter"), Some(8)),
      Request("/balance-sheet-statement/", symbol, Some("quarter"), Some(8)),
      Request("/cash-flow-statement/", symbol, Some("quarter"), Some(8))>>

\* `self._request(...) or []`: the list of a response, the empty list for a
\* request that failed (None) or delivered nothing
OrEmpty(responses, name) ==
    IF responses[name] = None \/ responses[name][1] = <<>> THEN <<>> ELSE responses[name][1]

\* annual periods cut to num_years before the averages are computed
TrimThenAverage(annual_data, num_years) == calculate_averages(Take(annual_data, num_years))

\* self._calculate_averages(company.annual_data), and afterwards
\* company.annual_data[:num_years]
AverageThenTrim(annual_data, num_years) == Take(calculate_averages(annual_data), num_years)

\* the annual periods of fetch_company: one for every annual income record,
\* in the order of the response
AnnualPeriods(annual_income, annual_balance, annual_cashflow) ==
    AsTuple([i \in DOMAIN annual_income |->
                AnnualPeriodOf(annual_income[i], annual_balance, annual_cashflow)])

\* the quarterly periods of fetch_company
QuarterlyPeriods(quarterly_income, quarterly_balance, quarterly_cashflow) ==
    AsTuple([i \in DOMAIN quarterly_income |->
                QuarterlyPeriodOf(quarterly_income[i], quarterly_balance, quarterly_cashflow)])

\* the company c with the periods of the statement responses, the TTM
\* period when there are four quarters, and the annual periods cut to num_years
WithPeriods(c, num_years, annual_data, quarterly_data) ==
    [c EXCEPT !.quarterly_data = quarterly_data,
              !.annual_data = AverageThenTrim(annual_data, num_years),
              !.ttm = calculate_ttm_from_quarters([c EXCEPT !.quarterly_data = quarterly_data])]

\* fetch_company after the profile request: made is what the profile gave,
\* None or Some(company).  Without a company nothing more is requested.
FetchStatements(made, num_years, responses) ==
    IF made = None
    THEN [ret |-> None, requests |-> <<>>]
    ELSE [ret |-> Some(WithPeriods(made[1], num_years,
                          AnnualPeriods(OrEmpty(responses, "annual_income"),
                                        OrEmpty(responses, "annual_balance"),
                                        OrEmpty(responses, "annual_cashflow")),
                          QuarterlyPeriods(OrEmpty(responses, "quarterly_income"),
                                           OrEmpty(responses, "quarterly_balance"),
                                           OrEmpty(responses, "quarterly_cashflow")))),
          requests |-> StatementRequests(made[1].ticker, num_years)]

\* the profile request, followed by what the rest of fetch_company did
AfterProfile(request, done) ==
    [ret |-> done.ret, requests |-> <<request>> \o done.requests]

\* FinancialDataAPI.fetch_company(symbol, num_years) of financial_data.py.
\* responses gives, for each of the seven requests, None (the request
\* failed) or Some(the list delivered).  The result is the value returned
\* and the requests made, in order.
fetch_company_statements(symbol, num_years, responses, now) ==
    AfterProfile(Request("/profile/", Strip(Upper(symbol)), None, None),
                 FetchStatements(fetch_company("financial_data", symbol, responses.profile, now),
                                 num_years, responses))

-----------------------------------------------------------------------------
(* SpecCashFlow: a CashFlow record with any field values, and calls of its *)
(* two methods in any order.                                               *)

Call(op, before, r) == [op |-> op, before |-> before, after |-> r.obj, ret |-> r.ret]

InitCashFlow ==
    /\ module \in Modules
    /\ \E cfo, capex, fcf, sbc, adj \in Vals, other \in {None, Some(1)} :
          cash_flow = [f \in CashFlowFields |->
                          CASE f = "cash_flow_from_operations" -> cfo
                            [] f = "capital_expenditures" -> capex
                            [] f = "free_cash_flow" -> fcf
                            [] f = "stock_based_compensation" -> sbc
                            [] f = "adjusted_fcf" -> adj
                            [] OTHER -> other]
    /\ debt_breakdown = DebtBreakdown
    /\ ratios = None
    /\ company = None
    /\ api_client = FALSE
    /\ companies = <<>>
    /\ calls = <<>>

CalculateFcf ==
    /\ Len(calls) < MaxCalls
    /\ LET r == IF module = "financial_data" THEN calculate_fcf(cash_flow)
                ELSE calculate_fcf_aio(cash_flow)
       IN  /\ cash_flow' = r.obj
           /\ calls' = Append(calls, Call("calculate_fcf", cash_flow, r))
    /\ UNCHANGED <<module, debt_breakdown, ratios, company, api_client, companies>>

CalculateAdjustedFcf ==
    /\ Len(calls) < MaxCalls
    /\ LET r == IF module = "financial_data" THEN calculate_adjusted_fcf(cash_flow)
                ELSE calculate_adjusted_fcf_aio(cash_flow)
       IN  /\ cash_flow' = r.obj
           /\ calls' = Append(calls, Call("calculate_adjusted_fcf", cash_flow, r))
    /\ UNCHANGED <<module, debt_breakdown, ratios, company, api_client, companies>>

NextCashFlow == CalculateFcf \/ CalculateAdjustedFcf

SpecCashFlow == InitCashFlow /\ [][NextCashFlow]_vars

-----------------------------------------------------------------------------
(* SpecDebt: a DebtBreakdown record with any field values, and calls of    *)
(* calculate_net_debt.                                                     *)

InitDebt ==
    /\ module \in Modules
    /\ \E td, cash, nd \in Vals, other \in {None, Some(1)} :
          debt_breakdown = [f \in DebtBreakdownFields |->
                               CASE f = "total_debt" -> td
                                 [] f = "cash_and_equivalents" -> cash
                                 [] f = "net_debt" -> nd
                                 [] OTHER -> other]
    /\ cash_flow = CashFlow
    /\ ratios = None
    /\ company = None
    /\ api_client = FALSE
    /\ companies = <<>>
    /\ calls = <<>>

CalculateNetDebt ==
    /\ Len(calls) < MaxCalls
    /\ LET r == IF module = "financial_data" THEN calculate_net_debt(debt_breakdown)
                ELSE calculate_net_debt_aio(debt_breakdown)
       IN  /\ debt_breakdown' = r.obj
           /\ calls' = Append(calls, Call("calculate_net_debt", debt_breakdown, r))
    /\ UNCHANGED <<module, cash_flow, ratios, company, api_client, companies>>

NextDebt == CalculateNetDebt

SpecDebt == InitDebt /\ [][NextDebt]_vars

-----------------------------------------------------------------------------
(* SpecRatios: a FinancialRatios object and one call of any of its methods *)
(* (they change nothing).  Every method reads a few fields only, so the    *)
(* periods are drawn group by group: the fields of one group take every    *)
(* combination of values, the fields outside it one common value.          *)

\* null, zero, a positive and a negative value
RatioVals == {None, Some(0), Some(2), Some(-1)}

\* the common value of the fields outside the group
Background == {None, Some(0), Some(2)}

\* no market data, or market data with this market_cap
MarketOptions == {None} \cup {Some(c) : c \in RatioVals}

\* no previous period, or a previous period with this equity_value
PreviousOptions == {None} \cup {Some(e) : e \in RatioVals \cup {Some(-2)}}

RatioCall(op, outcome) == [op |-> op, ret |-> outcome]

\* FinancialRatios(period, previous_period) with these field values
RatiosOf(rev, gp, oi, ie, tax, ni, td, eq, mkt, prev) ==
    LET inc == [IncomeStatement EXCEPT
                   !.revenues = rev, !.gross_profit = gp,
                   !.operating_income = oi, !.interest_expense = ie,
                   !.income_tax = tax, !.net_income = ni]
        p == [FinancialPeriod("Y", "2024") EXCEPT
                 !.income_statement = inc,
                 !.balance_sheet = [BalanceSheet EXCEPT
                                       !.equity_value = eq, !.total_debt = td],
                 !.debt_breakdown = [DebtBreakdown EXCEPT !.total_debt = td],
                 !.market_data =
                     IF mkt = None THEN None
                     ELSE Some([MarketData EXCEPT !.market_cap = mkt[1]])]
        q == IF prev = None THEN None
             ELSE Some([FinancialPeriod("Y", "2023") EXCEPT
                           !.balance_sheet =
                               [BalanceSheet EXCEPT !.equity_value = prev[1]]])
    IN  FinancialRatios(p, q)

InitRatios ==
    /\ module \in Modules
    /\ \E bg \in Background :
          \* valuation and margins: revenues, the numerators, market data
          \/ \E rev, gp, oi, ni \in RatioVals, mkt \in MarketOptions :
                ratios = RatiosOf(rev, gp, oi, bg, bg, ni, bg, bg, mkt, Some(bg))
          \* roe: the two equity values and net_income
          \/ \E ni, eq \in RatioVals, prev \in PreviousOptions :
                ratios = RatiosOf(bg, bg, bg, bg, bg, ni, bg, eq, Some(bg), prev)
          \* roic and interest_coverage
          \/ \E oi, ie, tax, td, eq \in RatioVals :
                ratios = RatiosOf(bg, bg, oi, ie, tax, bg, td, eq, Some(bg), Some(bg))
    /\ cash_flow = CashFlow
    /\ debt_breakdown = DebtBreakdown
    /\ company = None
    /\ api_client = FALSE
    /\ companies = <<>>
    /\ calls = <<>>

RatioStep(op, outcome) ==
    /\ calls = <<>>
    /\ calls' = <<RatioCall(op, outcome)>>
    /\ UNCHANGED <<module, cash_flow, debt_breakdown, ratios, company, api_client, companies>>

PeRatio == RatioStep("pe_ratio", pe_ratio(ratios))

PsRatio == RatioStep("ps_ratio", ps_ratio(ratios))

GrossMargin == RatioStep("gross_margin", gross_margin(ratios))

OperatingMargin == RatioStep("operating_margin", operating_margin(ratios))

NetMargin == RatioStep("net_margin", net_margin(ratios))

Roe == RatioStep("roe", roe(ratios))

\* roic() and roic(tax_rate = 0.25)
Roic ==
    \E tax_rate \in {None, Some(<<1, 4>>)} :
        /\ calls = <<>>
        /\ calls' = <<[op |-> "roic", tax_rate |-> tax_rate,
                       ret |-> IF module = "financial_data" THEN roic(ratios, tax_rate)
                               ELSE roic_aio(ratios, tax_rate)]>>
        /\ UNCHANGED <<module, cash_flow, debt_breakdown, ratios, company, api_client, companies>>

InterestCoverage == RatioStep("interest_coverage", interest_coverage(ratios))

CalculateAllRatios ==
    RatioStep("calculate_all_ratios", calculate_all_ratios(module, ratios))

NextRatios ==
    \/ PeRatio \/ PsRatio \/ GrossMargin \/ OperatingMargin \/ NetMargin
    \/ Roe \/ Roic \/ InterestCoverage \/ CalculateAllRatios

SpecRatios == InitRatios /\ [][NextRatios]_vars

-----------------------------------------------------------------------------
(* SpecTTM: a company with quarterly periods and a call of                 *)
(* calculate_ttm_from_quarters.  Either four quarters with any values of   *)
(* one summed field, or up to MaxQuarters distinct quarters delivered in   *)
(* any order, each carrying values that tell it from the others.           *)

\* the quarter names of the model, oldest first
QuarterNames ==
    <<QuarterName(2023, 3), QuarterName(2023, 4), QuarterName(2024, 1),
      QuarterName(2024, 2), QuarterName(2024, 3), QuarterName(2024, 4)>>

PowersOfTwo == <<1, 2, 4, 8, 16, 32>>

\* a quarterly period with one field of one statement set
QuarterWith(name, obj_name, field_name, val) ==
    LET p == FinancialPeriod("Q", name)
    IN  [p EXCEPT ![obj_name] = [p[obj_name] EXCEPT ![field_name] = val]]

\* the k-th quarter of QuarterNames, its revenues a power of two of its own
\* and its eps, shares, equity, debt and market cap its number
QuarterNumbered(k) ==
    [FinancialPeriod("Q", QuarterNames[k]) EXCEPT
        !.income_statement = [IncomeStatement EXCEPT
                                 !.revenues = Some(PowersOfTwo[k]),
                                 !.eps = Some(k),
                                 !.shares_outstanding = Some(k)],
        !.balance_sheet = [BalanceSheet EXCEPT !.equity_value = Some(k)],
        !.debt_breakdown = [DebtBreakdown EXCEPT !.total_debt = Some(k)],
        !.market_data = Some([MarketData EXCEPT !.market_cap = Some(k)])]

StatementOf(field_name) ==
    IF field_name \in IncomeStatementFields THEN "income_statement" ELSE "cash_flow"

\* the additive fields: all but shares_outstanding and the derived
\* free_cash_flow and adjusted_fcf
AdditiveFields ==
    (SummedIncomeFields \cup SummedCashFlowFields) \ {"free_cash_flow"}

\* a quarterly period with the five cash-flow fields of the free cash flow
QuarterCash(name, cfo, capex, fcf, sbc, adj) ==
    [FinancialPeriod("Q", name) EXCEPT
        !.cash_flow = [CashFlow EXCEPT
                          !.cash_flow_from_operations = cfo,
                          !.capital_expenditures = capex,
                          !.free_cash_flow = fcf,
                          !.stock_based_compensation = sbc,
                          !.adjusted_fcf = adj]]

\* a value in no quarter, in the k-th quarter only, or in all four
Spread(val, k) ==
    {[i \in 1..4 |-> None], [i \in 1..4 |-> IF i = k THEN val ELSE None],
     [i \in 1..4 |-> val]}

CompanyWith(quarters) ==
    [CompanyFinancials(<<"T">>, <<"T">>) EXCEPT !.quarterly_data = quarters]

InitTTM ==
    /\ module \in Modules
    /\ \/ \E f \in AdditiveFields, v \in [1..4 -> Vals] :
             company = CompanyWith([i \in 1..4 |->
                          QuarterWith(QuarterNames[7 - i], StatementOf(f), f, v[i])])
       \/ \E n \in 0..MaxQuarters :
             \E order \in [1..n -> DOMAIN QuarterNames] :
                /\ \A i, j \in 1..n : order[i] = order[j] => i = j
                /\ company = CompanyWith([i \in 1..n |-> QuarterNumbered(order[i])])
       \/ \E fcf \in [1..4 -> {None, Some(0), Some(1)}],
             cfo \in Spread(Some(4), 1), capex \in Spread(Some(-2), 2),
             sbc \in Spread(Some(1), 3), adj \in Spread(Some(8), 4) :
             company = CompanyWith([i \in 1..4 |->
                          QuarterCash(QuarterNames[7 - i], cfo[i], capex[i], fcf[i],
                                      sbc[i], adj[i])])
    /\ cash_flow = CashFlow
    /\ debt_breakdown = DebtBreakdown
    /\ ratios = None
    /\ api_client = FALSE
    /\ companies = <<>>
    /\ calls = <<>>

CalculateTtmFromQuarters ==
    /\ calls = <<>>
    /\ calls' = <<[op |-> "calculate_ttm_from_quarters",
                   ret |-> IF module = "financial_data"
                           THEN calculate_ttm_from_quarters(company)
                           ELSE calculate_ttm_from_quarters_aio(company)]>>
    /\ UNCHANGED <<module, cash_flow, debt_breakdown, ratios, company, api_client, companies>>

NextTTM == CalculateTtmFromQuarters

SpecTTM == InitTTM /\ [][NextTTM]_vars

-----------------------------------------------------------------------------
(* Spec: a GetValueDataManager, with or without an API client, and         *)
(* load_company calls with ticker-like, pasted and unrecognisable sources. *)

\* "AAPL", "aapl", "BRK.B", "ABCDEF", "ABCDEFG", a tab between letters, four
\* newlines, three newlines between letters, the empty string, and a pasted
\* table with a header row
Sources ==
    {<<"A", "A", "P", "L">>,
     <<"a", "a", "p", "l">>,
     <<"B", "R", "K", ".", "B">>,
     <<"A", "B", "C", "D", "E", "F">>,
     <<"A", "B", "C", "D", "E", "F", "G">>,
     <<"A", "\t", "B">>,
     <<"\n", "\n", "\n", "\n">>,
     <<"a", "\n", "b", "\n", "c", "\n", "d">>,
     <<>>,
     <<"I", "n", "c", "o", "m", "e", " ", "s", "t", "a", "t", "e", "m", "e", "n", "t", "\t", "Q", "1", "\n", "R", "e", "v", "e", "n", "u", "e", "s", "\t", "5">>}

\* load_company(source), load_company(source, ticker="AAPL") and
\* load_company(source, ticker="aapl")
TickerArgs == {None, Some(<<"A", "A", "P", "L">>), Some(<<"a", "a", "p", "l">>)}

\* the profile request fails, or delivers a profile with a company name and
\* no currency
Profiles == {None, Some(<<[companyName |-> <<"I", "n", "c">>]>>)}

Init ==
    /\ module \in Modules
    /\ api_client \in BOOLEAN
    /\ companies = <<>>
    /\ cash_flow = CashFlow
    /\ debt_breakdown = DebtBreakdown
    /\ ratios = None
    /\ company = None
    /\ calls = <<>>

LoadCompany ==
    /\ Len(calls) < MaxLoads
    /\ \E source \in Sources, ticker \in TickerArgs, profile \in Profiles :
          LET r == load_company(module, api_client, companies, source, ticker,
                                profile, Len(calls) + 1)
          IN  /\ companies' = r.companies
              /\ calls' = Append(calls, [op |-> "load_company", source |-> source,
                                         ticker |-> ticker, route |-> r.route,
                                         ret |-> r.ret, before |-> companies,
                                         after |-> r.companies])
    /\ UNCHANGED <<module, api_client, cash_flow, debt_breakdown, ratios, company>>

\* a call on a company of the cache that assigns nothing
CallOnLoaded(op, t, ret) ==
    /\ Len(calls) < MaxLoads
    /\ UNCHANGED <<module, api_client, cash_flow, debt_breakdown, ratios, company, companies>>
    /\ calls' = Append(calls, [op |-> op, ticker |-> t, ret |-> ret,
                               before |-> companies, after |-> companies'])

\* PeriodManager(company).identify_last_full_year() on a loaded company
IdentifyLastFullYearOfLoaded ==
    \E t \in DOMAIN companies :
        CallOnLoaded("identify_last_full_year", t, identify_last_full_year(companies[t]))

\* FinancialRatios(period).calculate_all_ratios() on a period of a loaded
\* company
CalculateAllRatiosOfLoaded ==
    \E t \in DOMAIN companies :
        \E p \in Range(companies[t].quarterly_data) \cup Range(companies[t].annual_data) :
            CallOnLoaded("calculate_all_ratios", t,
                         calculate_all_ratios(module, FinancialRatios(p, None)))

Next == LoadCompany \/ IdentifyLastFullYearOfLoaded \/ CalculateAllRatiosOfLoaded

Spec == Init /\ [][Next]_vars

-----------------------------------------------------------------------------
(* SpecParse: one call of FinancialDataParser.parse_from_text on a pasted  *)
(* table: lines before the header, a header row, data rows.                *)

RECURSIVE Join(_, _)
\* sep.join(pieces)
Join(pieces, sep) ==
    IF pieces = <<>> THEN <<>>
    ELSE IF Len(pieces) = 1 THEN pieces[1]
    ELSE pieces[1] \o <<sep>> \o Join(Tail(pieces), sep)

\* a table: the lines before the header row, the first cell of the header
\* row, the period names after it, and the data rows (label and cells)
Table(lead, first, names, rows) ==
    [lead |-> lead, first |-> first, names |-> names, rows |-> rows]

\* the text of a table as pasted: cells joined by tabs, lines by newlines
TableText(t) ==
    Join(t.lead \o <<Join(<<t.first>> \o t.names, "\t")>>
                \o [i \in DOMAIN t.rows |-> Join(t.rows[i], "\t")], "\n")

\* header cells: "TTM", "Ttm", "Q1", "Q2", "q1", "FY", "23"
PeriodNames == {<<"T", "T", "M">>, <<"T", "t", "m">>, <<"Q", "1">>, <<"Q", "2">>, <<"q", "1">>, <<"F", "Y">>, <<"2", "3">>}

\* cells that are numbers (100; 200 with a thousands comma; -5; 7 between
\* blanks) and cells that are not
NumberCells == {<<"1", "0", "0">>, <<"2", ",", "0", "0">>, <<"-", "5">>, <<" ", "7", " ">>}

TextCells == {<<"a", "b", "c">>, <<" ">>, <<"1", "-">>}

\* first cells of data rows: labels of the mapping tables, and near misses
RowLabels == {<<"R", "e", "v", "e", "n", "u", "e", "s">>, <<"r", "e", "v", "e", "n", "u", "e", "s">>, <<" ", "R", "e", "v", "e", "n", "u", "e", "s">>, <<"E", "P", "S">>, <<"E", "B", "I", "T", "D", "A">>, <<"F", "o", "o">>, <<"N", "e", "t", " ", "I", "n", "c", "o", "m", "e">>, <<"N", "e", "t", " ", "i", "n", "c", "o", "m", "e">>}

\* first cells of a row that is no header row
NoHeaderCells == {<<"i", "n", "c", "o", "m", "e", " ", "s", "t", "a", "t", "e", "m", "e", "n", "t">>, <<"I", "n", "c", "o", "m", "e">>, <<"B", "a", "l", "a", "n", "c", "e", " ", "s", "h", "e", "e", "t">>, <<>>, <<"I", "n", "c", "o", "m", "e", " ", " ", "s", "t", "a", "t", "e", "m", "e", "n", "t">>}

\* up to three period columns of any names, with an EPS row of 1, 2, 3
TablesByNames ==
    {Table(<<>>, IncomeStatementLabel, names,
           <<SubSeq(<<<<"E", "P", "S">>, <<"1">>, <<"2">>, <<"3">>>>, 1, Len(names) + 1)>>) :
        names \in UNION {[1..n -> PeriodNames] : n \in 0..3}}

\* two quarter columns, an EPS row of 8 and 9, then a row with any label and
\* any two cells
TablesByRow ==
    {Table(<<>>, IncomeStatementLabel, <<<<"Q", "1">>, <<"Q", "2">>>>,
           <<<<<<"E", "P", "S">>, <<"8">>, <<"9">>>>, <<label, c1, c2>>>>) :
        label \in RowLabels, c1, c2 \in NumberCells \cup TextCells}

\* four or five quarter columns in some order, alone or with a TTM or an
\* annual column, and a Revenues row of 1, 2, 4, 8, 16, 32
ManyQuarters ==
    {<<<<"Q", "1">>, <<"Q", "2">>, <<"Q", "3">>, <<"Q", "4">>>>,
     <<<<"Q", "4">>, <<"Q", "3">>, <<"Q", "2">>, <<"Q", "1">>>>,
     <<<<"Q", "1">>, <<"Q", "2">>, <<"Q", "3">>, <<"Q", "4">>, <<"Q", "5">>>>,
     <<<<"Q", "1">>, <<"Q", "2">>, <<"Q", "3">>, <<"Q", "4">>, <<"T", "T", "M">>>>,
     <<<<"T", "T", "M">>, <<"Q", "1">>, <<"Q", "2">>, <<"Q", "3">>, <<"Q", "4">>>>,
     <<<<"Q", "2">>, <<"F", "Y">>, <<"Q", "1">>, <<"Q", "4">>, <<"Q", "3">>>>,
     <<<<"Q", "1">>, <<"Q", "2">>, <<"Q", "3">>, <<"F", "Y">>>>,
     <<<<"Q", "1">>, <<"T", "T", "M">>, <<"Q", "2">>, <<"T", "T", "M">>>>}

TablesWithQuarters ==
    {Table(lead, IncomeStatementLabel, names,
           <<SubSeq(<<<<"R", "e", "v", "e", "n", "u", "e", "s">>, <<"1">>, <<"2">>, <<"4">>, <<"8">>, <<"1", "6">>, <<"3", "2">>>>, 1, Len(names) + 1)>>) :
        names \in ManyQuarters, lead \in {<<>>, <<Join(<<<<"S", "a", "l", "e", "s">>, <<"5">>>>, "\t")>>}}

\* texts without a header row: the first cell of every line has no
\* "Income statement" in it
TablesWithoutHeader ==
    {Table(lead, first, names, <<<<<<"R", "e", "v", "e", "n", "u", "e", "s">>, <<"1">>, <<"2">>>>>>) :
        lead \in {<<>>, <<<<>>>>, <<Join(<<<<"S", "a", "l", "e", "s">>, <<"5">>>>, "\t")>>},
        first \in NoHeaderCells,
        names \in {<<>>, <<<<"Q", "1">>, <<"Q", "2">>>>, <<<<"T", "T", "M">>, <<"Q", "1">>>>}}

\* two quarter columns named with their year, before or behind the quarter,
\* and a Revenues row of 1, 2
TablesWithYears ==
    {Table(<<>>, IncomeStatementLabel, names,
           <<<<<<"R", "e", "v", "e", "n", "u", "e", "s">>, <<"1">>, <<"2">>>>>>) :
        names \in {<<QuarterName(2024, 3), QuarterName(2024, 4)>>,
                   <<<<"Q", "1", " ", "2", "0", "2", "4">>, <<"Q", "4", " ", "2", "0", "2", "3">>>>}}

Tables ==
    TablesByNames \cup TablesByRow \cup TablesWithQuarters \cup TablesWithoutHeader
        \cup TablesWithYears

\* the ticker label handed to parse_from_text
ParseTickers == {UnknownTicker, <<"X">>}

InitParse ==
    /\ module \in Modules
    /\ cash_flow = CashFlow
    /\ debt_breakdown = DebtBreakdown
    /\ ratios = None
    /\ company = None
    /\ api_client = FALSE
    /\ companies = <<>>
    /\ calls = <<>>

ParseFromText ==
    /\ calls = <<>>
    /\ \E t \in Tables, ticker \in ParseTickers :
          calls' = <<[op |-> "parse_from_text", table |-> t, text |-> TableText(t),
                      ticker |-> ticker,
                      ret |-> parse_from_text(module, TableText(t), ticker)]>>
    /\ UNCHANGED <<module, cash_flow, debt_breakdown, ratios, company, api_client, companies>>

NextParse == ParseFromText

SpecParse == InitParse /\ [][NextParse]_vars

-----------------------------------------------------------------------------
(* SpecFetch: one call of FinancialDataAPI.fetch_company of                *)
(* financial_data.py, on the responses of the seven requests.  The lists   *)
(* of a response are newest first, as the API delivers them.               *)

\* the largest num_years asked for
MaxYears == 3

\* a key a record does not have
Missing == [kind |-> "missing"]

\* the record item with the value v under key, or without the key
With(item, key, v) ==
    [k \in IF v = Missing THEN DOMAIN item \ {key} ELSE DOMAIN item \cup {key} |->
        IF k = key THEN v ELSE item[k]]

\* the reporting date "202y-0q-30"
Date(y, q) == <<"2", "0", "2", y, "-", "0", q, "-", "3", "0">>

IncomeKeys ==
    {"revenue", "grossProfit", "operatingIncome", "ebitda", "interestExpense",
     "incomeTaxExpense", "netIncome", "epsdiluted", "eps",
     "weightedAverageShsOutDil", "weightedAverageShsOut"}

BalanceKeys ==
    {"cashAndCashEquivalents", "totalCurrentAssets", "totalAssets",
     "totalCurrentLiabilities", "totalDebt", "totalStockholdersEquity",
     "commonStock", "minorityInterest", "preferredStock", "shortTermDebt",
     "capitalLeaseObligations", "longTermDebt", "netDebt"}

CashFlowKeys ==
    {"operatingCashFlow", "capitalExpenditure", "freeCashFlow",
     "stockBasedCompensation", "depreciationAndAmortization",
     "changeInWorkingCapital", "dividendsPaid", "commonStockRepurchased"}

\* a record of a statement response for the year 202y and the quarter q,
\* with n million under every one of the keys
StatementRecord(keys, y, q, n) ==
    [k \in keys \cup {"date", "calendarYear", "period"} |->
        CASE k = "date" -> Date(y, q)
          [] k = "calendarYear" -> <<"2", "0", "2", y>>
          [] k = "period" -> <<"Q", q>>
          [] OTHER -> Num(n * Million)]

\* the annual records of the years ys, newest first
AnnualRecords(keys, ys, n) ==
    AsTuple([i \in DOMAIN ys |-> StatementRecord(keys, ys[i], "4", n)])

\* the records of the four quarters of the year 2023, newest first
QuarterRecords(keys, n) ==
    AsTuple([i \in 1..4 |-> StatementRecord(keys, "3", <<"4", "3", "2", "1">>[i], n)])

\* a profile response with one profile
ProfileResponse == Some(<<[companyName |-> <<"I", "n", "c">>]>>)

\* the seven responses of a fetch in which everything is delivered
FullResponses ==
    [profile |-> ProfileResponse,
     annual_income |-> Some(AnnualRecords(IncomeKeys, <<"3", "2">>, 2)),
     annual_balance |-> Some(AnnualRecords(BalanceKeys, <<"3", "2">>, 4)),
     annual_cashflow |-> Some(AnnualRecords(CashFlowKeys, <<"3", "2">>, 6)),
     quarterly_income |-> Some(QuarterRecords(IncomeKeys, 2)),
     quarterly_balance |-> Some(QuarterRecords(BalanceKeys, 4)),
     quarterly_cashflow |-> Some(QuarterRecords(CashFlowKeys, 6))]

\* every combination of a failed, an empty and a delivered profile with
\* failed and delivered statement requests
ResponsesByFailure ==
    {[name \in DOMAIN FullResponses |->
         IF name = "profile" THEN profile
         ELSE IF name \in failed THEN None ELSE FullResponses[name]] :
        profile \in {None, Some(<<>>), ProfileResponse},
        failed \in SUBSET (DOMAIN FullResponses \ {"profile"})}

\* annual income records of 2023 and 2022, with balance-sheet and cash-flow
\* records of any of the years 2021 to 2023; the income records with and
\* without a diluted share count
ResponsesByDate ==
    {[FullResponses EXCEPT
         !.annual_income = Some(AsTuple([i \in 1..2 |->
                                    With(FullResponses.annual_income[1][i],
                                         "weightedAverageShsOutDil", shs)])),
         !.annual_balance = Some(AnnualRecords(BalanceKeys, bs, 4)),
         !.annual_cashflow = Some(AnnualRecords(CashFlowKeys, cf, 6)),
         !.quarterly_balance = Some(SubSeq(QuarterRecords(BalanceKeys, 4), 2, 3))] :
        shs \in {Missing, PyNone, Num(8 * Million)},
        bs \in {<<>>, <<"3">>, <<"2">>, <<"1">>, <<"3", "2">>, <<"3", "1">>},
        cf \in {<<>>, <<"3">>, <<"2">>, <<"1">>, <<"3", "2">>}}

\* the years of the annual records delivered, newest first
DeliveredYears == {SubSeq(<<"4", "3", "2", "1">>, 1, k) : k \in 0..4}

\* annual records of up to four years, every balance sheet with or without
\* equity and total assets
ResponsesByEquity ==
    {[FullResponses EXCEPT
         !.annual_income = Some(AnnualRecords(IncomeKeys, ys, 2)),
         !.annual_balance = Some(AsTuple([i \in DOMAIN ys |->
              With(With(StatementRecord(BalanceKeys, ys[i], "4", 4),
                        "totalStockholdersEquity", eq[i]),
                   "totalAssets", IF i = gap THEN PyNone ELSE Num(2 * i * Million))]))] :
        ys \in DeliveredYears,
        eq \in [1..4 -> {PyNone, Num(100 * Million), Num(200 * Million), Num(300 * Million)}],
        gap \in {0, 2}}

\* the values under a key of a response
RawValues ==
    {Missing, PyNone, Num(0), Num(3 * Million), Num(-Million),
     Text(<<>>), Text(<<"a", "b", "c">>), Text(<<"1", ",", "0">>),
     Text(<<"2", "0", "0", "0", "0", "0", "0">>)}

\* eps and epsdiluted are numbers or null
KeyValues(key) ==
    IF key \in {"eps", "epsdiluted"} THEN {Missing, PyNone, Num(0), Num(3 * Million)}
    ELSE RawValues

\* the keys of the share counts of an income record
ShareKeys == {"weightedAverageShsOutDil", "weightedAverageShsOut"}

\* the record item without the keys of the set
Without(item, keys) == [k \in DOMAIN item \ keys |-> item[k]]

\* one annual and four quarterly records of every statement, with one key
\* of the records given any value, the income records with both share
\* counts or with none but the key
ResponsesByValue ==
    {[name \in DOMAIN FullResponses |->
         IF name = "profile" THEN ProfileResponse
         ELSE Some(AsTuple([i \in 1..(IF name \in {"annual_income", "annual_balance", "annual_cashflow"}
                                      THEN 1 ELSE 4) |->
                        IF kv[1] \in DOMAIN FullResponses[name][1][i]
                        THEN With(Without(FullResponses[name][1][i], without \ {kv[1]}),
                                  kv[1], kv[2])
                        ELSE Without(FullResponses[name][1][i], without)]))] :
        kv \in {p \in (IncomeKeys \cup BalanceKeys \cup CashFlowKeys) \X RawValues :
                   p[2] \in KeyValues(p[1])},
        without \in {{}, ShareKeys}}

\* the symbols asked for
FetchSymbols == {<<"a", "a", "p", "l">>, <<" ", "B", "R", "K", ".", "B">>}

InitFetch ==
    /\ module = "financial_data"
    /\ cash_flow = CashFlow
    /\ debt_breakdown = DebtBreakdown
    /\ ratios = None
    /\ company = None
    /\ api_client = TRUE
    /\ companies = <<>>
    /\ calls = <<>>

\* one call of fetch_company(symbol, num_years); input names the responses
FetchCompanyOn(input, symbol, num_years, responses) ==
    calls' = <<[op |-> "fetch_company", input |-> input, symbol |-> symbol,
                num_years |-> num_years, responses |-> responses,
                done |-> fetch_company_statements(symbol, num_years, responses, 1)]>>

FetchCompany ==
    /\ calls = <<>>
    /\ \/ \E r \in ResponsesByFailure, symbol \in FetchSymbols :
             FetchCompanyOn("failure", symbol, 1, r)
       \/ \E r \in ResponsesByDate : FetchCompanyOn("date", <<"A">>, MaxYears, r)
       \/ \E r \in ResponsesByEquity, n \in 1..MaxYears : FetchCompanyOn("equity", <<"A">>, n, r)
       \/ \E r \in ResponsesByValue : FetchCompanyOn("value", <<"A">>, 1, r)
    /\ UNCHANGED <<module, cash_flow, debt_breakdown, ratios, company, api_client, companies>>

NextFetch == FetchCompany

SpecFetch == InitFetch /\ [][NextFetch]_vars

-----------------------------------------------------------------------------
(* SpecPeriods: one call of parse_period_info on a period name, of         *)
(* _sort_periods on a list of periods, or of identify_last_full_year on a  *)
(* company, with names that parse as quarters and years and names that do  *)
(* not.                                                                    *)

\* the longest list of periods
MaxPeriods == 3

\* names of quarters and years, and names with the same sort key as another
\* name: "2024 Q4", "2024 Q2", "2023 Q4", "2024", "2024 Q0", "2023", "Q1 2024"
\* and "abc"
ListedNames ==
    {QuarterName(2024, 4), QuarterName(2024, 2), QuarterName(2023, 4), YearStr(2024),
     QuarterName(2024, 0), YearStr(2023), <<"Q", "1", " ", "2", "0", "2", "4">>,
     <<"a", "b", "c">>}

\* the names parse_period_info is called on: the listed ones; "TTM", "ttm"
\* and " Ttm "; a quarter with blanks around it, without a blank and with
\* two; quarters and years with characters before or behind; a lower-case
\* q; a Q without a digit; three and five digits; the empty name
ParsedNames ==
    ListedNames
    \cup {<<"T", "T", "M">>, <<"t", "t", "m">>, <<" ", "T", "t", "m", " ">>,
          <<"T", "T", "M", "x">>,
          <<" ">> \o QuarterName(2024, 3) \o <<" ">>,
          YearStr(2024) \o <<"Q", "1">>,
          YearStr(2024) \o <<" ", "\t", "Q", "1">>,
          QuarterName(2024, 3) \o <<"x">>,
          QuarterName(2024, 1) \o <<"2">>,
          QuarterName(2024, 3) \o <<" ", "e", "s", "t">>,
          <<"x">> \o QuarterName(2024, 3),
          <<"F", "Y">> \o YearStr(2024),
          YearStr(2024) \o <<"x">>,
          YearStr(2024) \o <<"5">>,
          <<" ">> \o YearStr(2024) \o <<"\n">>,
          YearStr(2024) \o <<" ", "q", "1">>,
          YearStr(2024) \o <<" ", "Q">>,
          YearStr(2024) \o <<"-", "Q", "1">>,
          <<"0", "2", "4">>, <<"0", "2", "4", " ", "Q", "1">>, <<"Q", "1">>, <<>>}

\* the periods with the names given, of the type given, the i-th with
\* revenues i
PeriodsNamed(ptype, names) ==
    AsTuple([i \in DOMAIN names |->
                [FinancialPeriod(ptype, names[i]) EXCEPT
                    !.income_statement.revenues = Some(i)]])

\* the lists of at most MaxPeriods names
NameLists == UNION {[1..n -> ListedNames] : n \in 0..MaxPeriods}

\* the annual periods of a company with quarters
AnnualLists == {<<>>, <<YearStr(2024)>>, <<YearStr(2023), <<"a", "b", "c">>>>}

InitPeriods ==
    /\ module \in Modules
    /\ cash_flow = CashFlow
    /\ debt_breakdown = DebtBreakdown
    /\ ratios = None
    /\ company = None
    /\ api_client = FALSE
    /\ companies = <<>>
    /\ calls = <<>>

ParsePeriodInfo ==
    /\ calls = <<>>
    /\ \E name \in ParsedNames :
          calls' = <<[op |-> "parse_period_info", name |-> name,
                      ret |-> parse_period_info(name)]>>
    /\ UNCHANGED <<module, cash_flow, debt_breakdown, ratios, company, api_client, companies>>

\* sorted() builds a new list: the list passed stays as it was
SortPeriods ==
    /\ calls = <<>>
    /\ \E names \in NameLists, ptype \in {"Q", "Y"} :
          calls' = <<[op |-> "sort_periods", periods |-> PeriodsNamed(ptype, names),
                      ret |-> sort_periods(PeriodsNamed(ptype, names)),
                      after |-> PeriodsNamed(ptype, names)]>>
    /\ UNCHANGED <<module, cash_flow, debt_breakdown, ratios, company, api_client, companies>>

\* the call on the company c; the company stays as it was
IdentifyLastFullYearOf(c) ==
    calls' = <<[op |-> "identify_last_full_year", company |-> c,
                ret |-> identify_last_full_year(c), after |-> c]>>

IdentifyLastFullYear ==
    /\ calls = <<>>
    /\ \E quarters \in NameLists, years \in AnnualLists \cup NameLists :
          /\ years \in AnnualLists \/ quarters = <<>>
          /\ IdentifyLastFullYearOf(
                [CompanyFinancials(<<"T">>, <<"T">>) EXCEPT
                    !.quarterly_data = PeriodsNamed("Q", quarters),
                    !.annual_data = PeriodsNamed("Y", years)])
    /\ UNCHANGED <<module, cash_flow, debt_breakdown, ratios, company, api_client, companies>>

NextPeriods == ParsePeriodInfo \/ SortPeriods \/ IdentifyLastFullYear

SpecPeriods == InitPeriods /\ [][NextPeriods]_vars

-----------------------------------------------------------------------------
(* Claims about CashFlow and DebtBreakdown *)

CallsOf(op) == {i \in DOMAIN calls : calls[i].op = op}

\* C5: when free_cash_flow is unset and cash_flow_from_operations and
\* capital_expenditures are both non-null (0 included), calculate_fcf stores
\* and returns cash_flow_from_operations + capital_expenditures; when either
\* is null it returns null and leaves free_cash_flow unset; and this holds in
\* every copy of CashFlow.
C5_FcfIsSumInEveryCopy ==
    \A i \in CallsOf("calculate_fcf") :
        LET b == calls[i].before
        IN  ~IsSet(b.free_cash_flow) =>
               IF IsSet(b.cash_flow_from_operations) /\ IsSet(b.capital_expenditures)
               THEN /\ calls[i].ret = Some(b.cash_flow_from_operations[1]
                                           + b.capital_expenditures[1])
                    /\ calls[i].after.free_cash_flow = calls[i].ret
               ELSE /\ calls[i].ret = None
                    /\ calls[i].after.free_cash_flow = None

\* C6: calculate_fcf is idempotent: a later call returns what the first call
\* returned and changes no field, and a pre-set free_cash_flow is returned
\* and left as it is whatever the other fields are.
C6_FcfIdempotent ==
    /\ \A i, j \in CallsOf("calculate_fcf") :
          i < j => /\ calls[j].ret = calls[i].ret
                   /\ calls[j].after = calls[j].before
    /\ \A i \in CallsOf("calculate_fcf") :
          IsSet(calls[i].before.free_cash_flow) =>
             /\ calls[i].ret = calls[i].before.free_cash_flow
             /\ calls[i].after = calls[i].before

\* C6 witness: calculate_fcf was called twice on a record whose
\* free_cash_flow the first call derived.
C6_Witness ==
    /\ Len(calls) = 2
    /\ calls[1].op = "calculate_fcf" /\ calls[2].op = "calculate_fcf"
    /\ ~IsSet(calls[1].before.free_cash_flow)
    /\ IsSet(calls[1].after.free_cash_flow)

\* C7: calculate_adjusted_fcf derives adjusted_fcf only when it is unset: once
\* adjusted_fcf holds a value (pre-set or from an earlier call) a call returns
\* that value and leaves the field unchanged, and two calls return the same.
C7_AdjustedFcfCached ==
    /\ \A i \in CallsOf("calculate_adjusted_fcf") :
          IsSet(calls[i].before.adjusted_fcf) =>
             /\ calls[i].ret = calls[i].before.adjusted_fcf
             /\ calls[i].after.adjusted_fcf = calls[i].before.adjusted_fcf
    /\ \A i, j \in CallsOf("calculate_adjusted_fcf") :
          i < j => calls[j].ret = calls[i].ret

\* C8: with net_debt unset, calculate_net_debt stores and returns
\* total_debt - cash_and_equivalents when both are non-null (0 included), and
\* returns null leaving net_debt null when either is null.
C8_NetDebt ==
    \A i \in CallsOf("calculate_net_debt") :
        LET b == calls[i].before
        IN  ~IsSet(b.net_debt) =>
               IF IsSet(b.total_debt) /\ IsSet(b.cash_and_equivalents)
               THEN /\ calls[i].ret = Some(b.total_debt[1] - b.cash_and_equivalents[1])
                    /\ calls[i].after.net_debt = calls[i].ret
               ELSE /\ calls[i].ret = None
                    /\ calls[i].after.net_debt = None

-----------------------------------------------------------------------------
(* Claims about FinancialRatios *)

\* the numerator field of each margin
MarginNumerator ==
    [op \in {"gross_margin", "operating_margin", "net_margin"} |->
        CASE op = "gross_margin" -> "gross_profit"
          [] op = "operating_margin" -> "operating_income"
          [] op = "net_margin" -> "net_income"]

\* a required operand of the ratio is null, or its denominator is zero
OperandMissing(r, name) ==
    LET inc == r.income
        NoCap == r.market = None \/ r.market[1].market_cap = None
    IN  CASE name = "pe_ratio" -> NoCap \/ ~Truthy(inc.net_income)
          [] name = "ps_ratio" -> NoCap \/ ~Truthy(inc.revenues)
          [] name \in DOMAIN MarginNumerator ->
                ~Truthy(inc.revenues) \/ inc[MarginNumerator[name]] = None
          [] name = "roe" ->
                \/ r.previous_period = None
                \/ r.balance.equity_value = None
                \/ r.previous_period[1].balance_sheet.equity_value = None
                \/ inc.net_income = None
          [] name = "interest_coverage" ->
                ~Truthy(inc.interest_expense) \/ inc.operating_income = None

\* C3: every ratio method returns a number or null without raising, null
\* whenever a required operand is null or a denominator is zero, and
\* calculate_all_ratios returns a mapping with exactly the eight ratio keys.
C3_RatiosNeverRaise ==
    \A i \in DOMAIN calls :
        LET c == calls[i]
        IN  /\ c.op \in RatioNames \cup {"calculate_all_ratios"} => c.ret.raised = ""
            \* (roic is left to its own claim: its tax rate may be supplied)
            /\ (c.op \in RatioNames \ {"roic"} /\ OperandMissing(ratios, c.op))
                  => c.ret = Returns(None)
            /\ c.op = "calculate_all_ratios" =>
                  /\ c.ret.raised = ""
                  /\ DOMAIN c.ret.val = RatioNames

\* C4: a margin is null when revenues is null or 0, and otherwise, whenever
\* its numerator is non-null (a numerator of 0 included), numerator / revenues.
C4_MarginOfZeroNumerator ==
    \A i \in DOMAIN calls :
        LET c == calls[i]
        IN  c.op \in DOMAIN MarginNumerator =>
               LET rev == ratios.income.revenues
                   num == ratios.income[MarginNumerator[c.op]]
               IN  IF ~Truthy(rev)
                   THEN c.ret = Returns(None)
                   ELSE IsSet(num) => c.ret = Returns(Div(num[1], rev[1]))

\* C25: roe returns None without a previous period, when the equity_value
\* of either period is None, and when the two equity values add up to 0;
\* in every other case with a net_income, a net_income or an equity_value
\* of 0 included, it returns net_income / ((equity + previous equity) / 2).
C25_Roe ==
    \A i \in DOMAIN calls :
        calls[i].op = "roe" =>
           LET prev == ratios.previous_period
               curr_eq == ratios.balance.equity_value
               ni == ratios.income.net_income
           IN  IF prev = None \/ curr_eq = None
                  \/ prev[1].balance_sheet.equity_value = None
                  \/ curr_eq[1] + prev[1].balance_sheet.equity_value[1] = 0
               THEN calls[i].ret = Returns(None)
               ELSE ni # None =>
                       calls[i].ret
                         = Returns(Div(ni[1] * 2,
                                       curr_eq[1] + prev[1].balance_sheet.equity_value[1]))

\* |total_debt| + equity_value, where both are set
InvestedCapital(r) == Abs(r.debt.total_debt[1]) + r.balance.equity_value[1]

\* C26: roic returns None when operating_income is None, when no tax_rate
\* is passed and income_tax is None, and when |total_debt| + equity_value
\* is 0; without a tax_rate passed the rate is |income_tax| /
\* |operating_income|, an income_tax of 0 included; the result is
\* operating_income * (1 - rate) / (|total_debt| + equity_value), and no
\* call raises.  (Stated where total_debt and equity_value are set and
\* operating_income is not 0.)
C26_Roic ==
    \A i \in DOMAIN calls :
        calls[i].op = "roic" =>
           LET oi == ratios.income.operating_income
               tax == ratios.income.income_tax
               passed == calls[i].tax_rate
           IN  /\ calls[i].ret.raised = ""
               /\ (oi = None \/ (passed = None /\ tax = None))
                     => calls[i].ret = Returns(None)
               /\ (/\ oi # None /\ oi # Some(0)
                   /\ passed # None \/ tax # None
                   /\ ratios.debt.total_debt # None
                   /\ ratios.balance.equity_value # None)
                     => LET rate == IF passed # None THEN passed[1]
                                    ELSE <<Abs(tax[1]), Abs(oi[1])>>
                        IN  calls[i].ret
                              = IF InvestedCapital(ratios) = 0 THEN Returns(None)
                                ELSE Returns(Div(oi[1] * (rate[2] - rate[1]),
                                                 rate[2] * InvestedCapital(ratios)))

-----------------------------------------------------------------------------
(* Claims about calculate_ttm_from_quarters *)

RECURSIVE SumOfSet(_, _, _, _)
\* the sum of a field over the periods at the indices idx
SumOfSet(periods, obj_name, field_name, idx) ==
    IF idx = {} THEN 0
    ELSE LET i == CHOOSE k \in idx : TRUE
         IN  periods[i][obj_name][field_name][1]
             + SumOfSet(periods, obj_name, field_name, idx \ {i})

\* the sum of the non-null values of a field over the periods at idx, null
\* when all are null
NullExcludingSum(periods, obj_name, field_name, idx) ==
    LET present == {i \in idx : IsSet(periods[i][obj_name][field_name])}
    IN  IF present = {} THEN None
        ELSE Some(SumOfSet(periods, obj_name, field_name, present))

\* C1: in a derived TTM period every additive income-statement and cash-flow
\* field (eps included) is the sum of the non-null values of the four
\* quarters used, and null when all four are null.
C1_TtmSumsAdditiveFields ==
    \A i \in CallsOf("calculate_ttm_from_quarters") :
        IsSet(calls[i].ret) =>
           LET used == TtmQuarters(company)
           IN  \A f \in AdditiveFields :
                  calls[i].ret[1][StatementOf(f)][f]
                     = NullExcludingSum(used, StatementOf(f), f, 1..4)

\* the indices of the four chronologically most recent quarters of
\* quarterly_data: no quarter outside them is later than one of them
MostRecentFour(quarters) ==
    CHOOSE idx \in SUBSET DOMAIN quarters :
        /\ Cardinality(idx) = 4
        /\ \A i \in idx, j \in DOMAIN quarters \ idx :
              KeyLess(sort_key(quarters[j]), sort_key(quarters[i]))

\* C2: calculate_ttm_from_quarters returns no result with fewer than four
\* quarterly periods and otherwise aggregates the four chronologically most
\* recent ones, whatever the length and order of quarterly_data.
C2_TtmUsesMostRecentFour ==
    \A i \in CallsOf("calculate_ttm_from_quarters") :
        LET q == company.quarterly_data
        IN  IF Len(q) < 4
            THEN calls[i].ret = None
            ELSE /\ IsSet(calls[i].ret)
                 /\ calls[i].ret[1].income_statement.revenues
                       = NullExcludingSum(q, "income_statement", "revenues",
                                          MostRecentFour(q))

-----------------------------------------------------------------------------
(* Claims about GetValueDataManager *)

LoadCalls == {i \in DOMAIN calls : calls[i].op = "load_company"}

Successful == {i \in LoadCalls : calls[i].ret # None}

\* at most 6 characters, all of them letters
ShortAlphabetic(source_str) == Len(source_str) <= 6 /\ IsAlpha(source_str)

\* a tab or more than 3 newlines
LooksPasted(source_str) ==
    Contains(source_str, <<"\t">>) \/ Count(source_str, "\n") > 3

\* the label the text adapter is to get
LabelFor(ticker) == IF ticker = None \/ ticker[1] = <<>> THEN UnknownTicker ELSE ticker[1]

\* C9: on a manager with an API client, every load_company call with a short
\* alphabetic source goes to the API adapter; any other source with a tab or
\* more than 3 newlines goes to the text adapter and comes back labelled with
\* the supplied ticker or the default label; any other source reaches
\* neither adapter and returns no company.  Sources with a dot, which the
\* wording does not settle, are left out.
C9_SourceDetection ==
    api_client =>
        \A i \in LoadCalls :
            LET c == calls[i]
            IN  IF ShortAlphabetic(c.source) THEN c.route = "api"
                ELSE IF Contains(c.source, <<".">>) THEN TRUE
                ELSE IF LooksPasted(c.source)
                THEN /\ c.route = "text"
                     /\ c.ret # None
                     /\ c.ret[1].ticker = LabelFor(c.ticker)
                ELSE c.route = "none" /\ c.ret = None

\* the last successful load for ticker t
LastLoadOf(t) ==
    CHOOSE i \in Successful :
        /\ calls[i].ret[1].ticker = t
        /\ \A j \in Successful : calls[j].ret[1].ticker = t => j <= i

\* C10: after any sequence of load_company calls the cache has exactly the
\* tickers of the successful loads, each mapped to the company its most
\* recent successful load returned; a load that returned no company left
\* the cache as it was, and a successful load changed no entry but that of
\* its own ticker.
C10_CacheHoldsLatestLoad ==
    /\ DOMAIN companies = {calls[i].ret[1].ticker : i \in Successful}
    /\ \A t \in DOMAIN companies : companies[t] = calls[LastLoadOf(t)].ret[1]
    /\ \A i \in LoadCalls :
          LET c == calls[i]
          IN  IF c.ret = None THEN c.after = c.before
              ELSE /\ c.after[c.ret[1].ticker] = c.ret[1]
                   /\ \A t \in (DOMAIN c.before \cup DOMAIN c.after) \ {c.ret[1].ticker} :
                         /\ t \in DOMAIN c.before
                         /\ t \in DOMAIN c.after
                         /\ c.after[t] = c.before[t]

\* a reload of a cached ticker: two successful loads of one ticker that
\* returned different company objects
C10_Witness ==
    \E i, j \in Successful :
        /\ i < j
        /\ calls[i].ret[1].ticker = calls[j].ret[1].ticker
        /\ calls[i].ret[1].id # calls[j].ret[1].id
        /\ calls[j].ret[1].ticker \in DOMAIN calls[j].before

\* trimmed and uppercased: str.strip() and str.upper() change nothing
Normalized(ticker) == Strip(ticker) = ticker /\ Upper(ticker) = ticker

\* C11: after any sequence of load_company calls every key of the cache, and
\* the ticker of every cached company, is trimmed and uppercased.
C11_TickersNormalized ==
    \A t \in DOMAIN companies : Normalized(t) /\ Normalized(companies[t].ticker)

-----------------------------------------------------------------------------
(* Claims about FinancialDataParser *)

ParseCalls == {i \in DOMAIN calls : calls[i].op = "parse_from_text"}

\* the first cell of the table's header row has "Income statement" in it
\* (no line before it has)
HasHeader(t) == Contains(t.first, IncomeStatementLabel)

\* the type the text adapter is to give a header cell
ClaimedType(name) ==
    IF Contains(Upper(name), <<"T", "T", "M">>) THEN "TTM"
    ELSE IF Contains(name, <<"Q">>) THEN "Q"
    ELSE "Y"

\* the number a cell of the tables stands for, None for a cell that is none
NumberOfCell(cell) ==
    CASE cell = <<"1", "0", "0">> -> Some(100)
      [] cell = <<"2", ",", "0", "0">> -> Some(200)
      [] cell = <<"-", "5">> -> Some(-5)
      [] cell = <<" ", "7", " ">> -> Some(7)
      [] cell \in {<<"1">>, <<"2">>, <<"3">>, <<"4">>, <<"8">>, <<"9">>} -> Some(DigitVal(cell[1]))
      [] cell \in {<<"1", "6">>} -> Some(16)
      [] cell \in {<<"3", "2">>} -> Some(32)
      [] OTHER -> None

\* the rows of the mapping table of copy m with exactly this label
MappedTo(m, label) == {e \in field_map(m) : e[1] = label}

\* the columns of one claimed type, in header order
ColumnsOfType(names, ptype) ==
    Pick([i \in DOMAIN names |-> i], {i \in DOMAIN names : ClaimedType(Strip(names[i])) = ptype})

\* the header column with a period's name
ColumnOf(names, period_name) == CHOOSE i \in DOMAIN names : Strip(names[i]) = period_name

\* the header periods a parsed company holds: quarterly_data, annual_data,
\* and ttm when the header has a TTM column (it is derived otherwise)
PeriodsOf(names, c) ==
    (IF c.ttm = None \/ ColumnsOfType(names, "TTM") = <<>> THEN {} ELSE {c.ttm[1]})
        \cup Range(c.quarterly_data) \cup Range(c.annual_data)

\* C12: for a header row with n period columns of distinct names and a last
\* data row with a mapped label and n number cells, every period of the
\* company has the value of its own column's cell (commas stripped), every
\* column typed QUARTERLY is in quarterly_data, and quarterly_data and
\* annual_data list their periods in header column order.
C12_ColumnOrder ==
    \A i \in ParseCalls :
        LET t == calls[i].table
            ret == calls[i].ret
            n == Len(t.names)
            row == t.rows[Len(t.rows)]
            hits == MappedTo(module, row[1])
        IN  (/\ HasHeader(t)
             /\ n >= 1
             /\ \A a, b \in 1..n : a # b => Strip(t.names[a]) # Strip(t.names[b])
             /\ hits # {}
             /\ Len(row) = n + 1
             /\ \A k \in 1..n : NumberOfCell(row[k + 1]) # None)
            => LET e == CHOOSE h \in hits : TRUE
               IN  /\ \A p \in PeriodsOf(t.names, ret) :
                         /\ \E k \in 1..n : Strip(t.names[k]) = p.period_name
                         /\ p[e[2]][e[3]] = NumberOfCell(row[ColumnOf(t.names, p.period_name) + 1])
                   /\ Len(ret.quarterly_data) = Len(ColumnsOfType(t.names, "Q"))
                   /\ \A list \in {ret.quarterly_data, ret.annual_data} :
                         \A j, k \in DOMAIN list :
                             j < k => ColumnOf(t.names, list[j].period_name)
                                        < ColumnOf(t.names, list[k].period_name)

\* header "Q1, Q2" with Revenues "100" and "2,00": two quarterly periods with
\* revenues 100 and 200 in that order
C12_Witness ==
    \E i \in ParseCalls :
        /\ calls[i].table.names = <<<<"Q", "1">>, <<"Q", "2">>>>
        /\ Len(calls[i].table.rows) = 2
        /\ calls[i].table.rows[2] = <<<<"R", "e", "v", "e", "n", "u", "e", "s">>, <<"1", "0", "0">>, <<"2", ",", "0", "0">>>>
        /\ Len(calls[i].ret.quarterly_data) = 2
        /\ calls[i].ret.quarterly_data[1].income_statement.revenues = Some(100)
        /\ calls[i].ret.quarterly_data[2].income_statement.revenues = Some(200)

\* the names of a list of periods
NamesOf(periods) == [j \in DOMAIN periods |-> periods[j].period_name]

\* C13: every header column is typed TTM, QUARTERLY or ANNUAL by its name and
\* its period is in company.ttm, quarterly_data or annual_data accordingly,
\* none dropped: quarterly_data and annual_data hold exactly the columns of
\* their type, company.ttm is a TTM column's period when there is one, the
\* result of calculate_ttm_from_quarters when there is none and at least 4
\* quarterly periods exist, and null otherwise.
C13_Distribution ==
    \A i \in ParseCalls :
        LET t == calls[i].table
            ret == calls[i].ret
            stripped == [k \in DOMAIN t.names |-> Strip(t.names[k])]
            ttms == ColumnsOfType(t.names, "TTM")
            derived == IF module = "financial_data"
                       THEN calculate_ttm_from_quarters([ret EXCEPT !.ttm = None])
                       ELSE calculate_ttm_from_quarters_aio([ret EXCEPT !.ttm = None])
        IN  HasHeader(t) =>
               /\ NamesOf(ret.quarterly_data)
                     = [j \in DOMAIN ColumnsOfType(t.names, "Q") |->
                           stripped[ColumnsOfType(t.names, "Q")[j]]]
               /\ NamesOf(ret.annual_data)
                     = [j \in DOMAIN ColumnsOfType(t.names, "Y") |->
                           stripped[ColumnsOfType(t.names, "Y")[j]]]
               /\ \A p \in Range(ret.quarterly_data) : p.period_type = "Q"
               /\ \A p \in Range(ret.annual_data) : p.period_type = "Y"
               /\ IF ttms # <<>>
                  THEN /\ ret.ttm # None
                       /\ ret.ttm[1].period_type = "TTM"
                       /\ \E j \in DOMAIN ttms : stripped[ttms[j]] = ret.ttm[1].period_name
                  ELSE IF Len(ret.quarterly_data) >= 4
                  THEN ret.ttm # None /\ ret.ttm = derived
                  ELSE ret.ttm = None

\* C14: for every text in which no line's first cell has "Income statement"
\* in it, parse_from_text returns a company with the given ticker, no ttm
\* and empty quarterly_data and annual_data.
C14_NoHeaderEmptyRecord ==
    \A i \in ParseCalls :
        ~HasHeader(calls[i].table) =>
            /\ calls[i].ret.ticker = calls[i].ticker
            /\ calls[i].ret.company_name = calls[i].ticker
            /\ calls[i].ret.ttm = None
            /\ calls[i].ret.quarterly_data = <<>>
            /\ calls[i].ret.annual_data = <<>>

\* a text with period cells and a Revenues row under a first line that
\* starts with "income statement" in lower case
C14_Witness ==
    \E i \in ParseCalls :
        /\ calls[i].table.first = <<"i", "n", "c", "o", "m", "e", " ", "s", "t", "a", "t", "e", "m", "e", "n", "t">>
        /\ calls[i].table.names = <<<<"Q", "1">>, <<"Q", "2">>>>
        /\ calls[i].table.lead = <<>>
        /\ calls[i].ret.quarterly_data = <<>>
        /\ calls[i].ret.ticker = <<"X">>

\* C29: every period parse_from_text files as QUARTERLY (its header name
\* has a "Q" in it) has a period_name that parse_period_info classifies as
\* QUARTERLY with a year above 0 and a quarter.
C29_TextQuartersParse ==
    \A i \in ParseCalls :
        \A k \in DOMAIN calls[i].ret.quarterly_data :
            LET info == parse_period_info(calls[i].ret.quarterly_data[k].period_name)
            IN  /\ calls[i].ret.quarterly_data[k].period_type = "Q"
                /\ info[1] = "QUARTERLY"
                /\ info[2] > 0
                /\ info[3] # None

\* the table without its last data row
WithoutLastRow(t) == [t EXCEPT !.rows = SubSeq(t.rows, 1, Len(t.rows) - 1)]

\* C15: in a data row with a label of the mapping table, a cell that is no
\* number leaves its period's field as the rows before left it, and the
\* number cells of the row are applied to their periods; a row whose first
\* cell is no label of the mapping table (not even between blanks) changes
\* no field of any period.
C15_BadCellTolerance ==
    \A i \in ParseCalls :
        LET t == calls[i].table
            ret == calls[i].ret
            row == t.rows[Len(t.rows)]
            prev == parse_from_text(module, TableText(WithoutLastRow(t)), calls[i].ticker)
            hits == MappedTo(module, row[1])
        IN  (HasHeader(t) /\ Len(t.rows) = 2 /\ t.names = <<<<"Q", "1">>, <<"Q", "2">>>>) =>
               IF hits # {}
               THEN LET e == CHOOSE h \in hits : TRUE
                    IN  /\ Len(ret.quarterly_data) = 2
                        /\ \A k \in 1..2 :
                              ret.quarterly_data[k]
                                 = IF NumberOfCell(row[k + 1]) # None
                                   THEN [prev.quarterly_data[k] EXCEPT
                                            ![e[2]][e[3]] = NumberOfCell(row[k + 1])]
                                   ELSE prev.quarterly_data[k]
               ELSE MappedTo(module, Strip(row[1])) = {} => ret = prev

\* an EPS row "abc", "100" after an EPS row 8, 9: the first quarter keeps
\* eps 8 and the second gets 100
C15_Witness ==
    \E i \in ParseCalls :
        /\ Len(calls[i].table.rows) = 2
        /\ calls[i].table.rows[2] = <<<<"E", "P", "S">>, <<"a", "b", "c">>, <<"1", "0", "0">>>>
        /\ Len(calls[i].ret.quarterly_data) = 2
        /\ calls[i].ret.quarterly_data[1].income_statement.eps = Some(8)
        /\ calls[i].ret.quarterly_data[2].income_statement.eps = Some(100)

\* C15 as stated: a row whose first cell is not exactly a label of the
\* mapping table changes no field of any period.
C15_ExactLabelOnly ==
    \A i \in ParseCalls :
        LET t == calls[i].table
            row == t.rows[Len(t.rows)]
        IN  (HasHeader(t) /\ Len(t.rows) = 2 /\ MappedTo(module, row[1]) = {})
            => calls[i].ret = parse_from_text(module, TableText(WithoutLastRow(t)),
                                              calls[i].ticker)

-----------------------------------------------------------------------------
(* Claims about FinancialDataAPI.fetch_company *)

FetchCalls == {i \in DOMAIN calls : calls[i].op = "fetch_company"}

\* the list a request delivered, empty for a request that failed
ListOf(response) == IF response = None THEN <<>> ELSE response[1]

\* the responses with every failed statement request replaced by an empty list
FailuresAsEmpty(responses) ==
    [name \in DOMAIN responses |->
        IF name # "profile" /\ responses[name] = None THEN Some(<<>>) ELSE responses[name]]

\* the parameters of the seven requests of a fetch for num_years years
ExpectedRequests(num_years) ==
    <<<<"/profile/", None, None>>,
      <<"/income-statement/", Some("annual"), Some(num_years + 1)>>,
      <<"/balance-sheet-statement/", Some("annual"), Some(num_years + 1)>>,
      <<"/cash-flow-statement/", Some("annual"), Some(num_years + 1)>>,
      <<"/income-statement/", Some("quarter"), Some(8)>>,
      <<"/balance-sheet-statement/", Some("quarter"), Some(8)>>,
      <<"/cash-flow-statement/", Some("quarter"), Some(8)>>>>

\* C16: the profile is requested first.  When the profile request fails or
\* delivers an empty list, fetch_company returns no company and makes no
\* other request.  Otherwise, whichever of the six statement requests fail,
\* all six are made, a company is returned, and it is the company the fetch
\* returns when the failed requests deliver empty lists instead (no annual
\* periods without annual income records, no quarterly periods without
\* quarterly income records).
C16_FetchSequence ==
    \A i \in FetchCalls :
        LET r == calls[i].responses
            done == calls[i].done
        IN  /\ Len(done.requests) >= 1
            /\ done.requests[1].endpoint = "/profile/"
            /\ IF ListOf(r.profile) = <<>>
               THEN done.ret = None /\ Len(done.requests) = 1
               ELSE /\ done.ret # None
                    /\ Len(done.requests) = 7
                    /\ \A k \in 1..7 :
                          <<done.requests[k].endpoint, done.requests[k].period,
                            done.requests[k].limit>> = ExpectedRequests(calls[i].num_years)[k]
                    /\ done.ret = fetch_company_statements(calls[i].symbol, calls[i].num_years,
                                                           FailuresAsEmpty(r), 1).ret
                    /\ Len(done.ret[1].annual_data) <= Len(ListOf(r.annual_income))
                    /\ Len(done.ret[1].quarterly_data) = Len(ListOf(r.quarterly_income))

\* the annual income request and the quarterly cash-flow request fail, the
\* other requests deliver: a company without annual periods, with four
\* quarters and a TTM period, after seven requests
C16_Witness ==
    \E i \in FetchCalls :
        /\ calls[i].responses.profile # None
        /\ calls[i].responses.annual_income = None
        /\ calls[i].responses.quarterly_cashflow = None
        /\ calls[i].responses.quarterly_income # None
        /\ calls[i].done.ret # None
        /\ calls[i].done.ret[1].annual_data = <<>>
        /\ Len(calls[i].done.ret[1].quarterly_data) = 4
        /\ calls[i].done.ret[1].ttm # None
        /\ Len(calls[i].done.requests) = 7

\* the number of annual periods a fetch keeps of the income records delivered
Kept(num_years, annual_income) ==
    IF num_years < Len(annual_income) THEN num_years ELSE Len(annual_income)

\* no record of the list has the reporting date
Unmatched(items, date_str) == \A k \in DOMAIN items : items[k].date # date_str

\* C17: every annual income record within the requested count yields one
\* annual period, in the order delivered; a period whose date no
\* balance-sheet record has, has None in every field of its balance_sheet
\* and debt_breakdown, and a period whose date no cash-flow record has, has
\* None in every field of its cash_flow.
C17_DateJoin ==
    \A i \in FetchCalls :
        calls[i].done.ret # None =>
            LET r == calls[i].responses
                inc == ListOf(r.annual_income)
                annual_data == calls[i].done.ret[1].annual_data
            IN  /\ Len(annual_data) = Kept(calls[i].num_years, inc)
                /\ \A k \in DOMAIN annual_data :
                      /\ annual_data[k].period_name = inc[k].calendarYear
                      /\ Unmatched(ListOf(r.annual_balance), inc[k].date) =>
                            /\ \A f \in BalanceSheetFields :
                                  annual_data[k].balance_sheet[f] = None
                            /\ \A f \in DebtBreakdownFields :
                                  annual_data[k].debt_breakdown[f] = None
                      /\ Unmatched(ListOf(r.annual_cashflow), inc[k].date) =>
                            \A f \in CashFlowFields : annual_data[k].cash_flow[f] = None

\* the balance-sheet field of the k-th annual record delivered, in millions
Delivered(r, key, k) ==
    IF k \in DOMAIN ListOf(r.annual_balance) /\ ListOf(r.annual_balance)[k][key].kind = "num"
    THEN Some(ListOf(r.annual_balance)[k][key].n \div Million)
    ELSE None

\* the mean of the field over the k-th record delivered and the next one,
\* None unless both have it
TrailingMean(r, key, k) ==
    IF Delivered(r, key, k) # None /\ Delivered(r, key, k + 1) # None
    THEN Some((Delivered(r, key, k)[1] + Delivered(r, key, k + 1)[1]) \div 2)
    ELSE None

\* fetches whose annual balance-sheet records match the income records one
\* by one, newest first
EquityCalls == {i \in FetchCalls : calls[i].input = "equity"}

\* C18: a fetch for n >= 1 years asks for n + 1 annual records of each
\* statement and returns at most n annual periods, the first n of those
\* delivered.  The averages are those over all the records delivered: the
\* period of the k-th record has the mean with the (k+1)-th record, also
\* when the (k+1)-th period is not retained; so when n + 1 records with
\* equity and total assets are delivered, every retained period has an
\* avg_equity and an avg_assets.
C18_Truncation ==
    \A i \in EquityCalls :
        LET r == calls[i].responses
            n == calls[i].num_years
            annual_data == calls[i].done.ret[1].annual_data
        IN  /\ n >= 1
            /\ \A k \in 2..4 : calls[i].done.requests[k].limit = Some(n + 1)
            /\ Len(annual_data) <= n
            /\ Len(annual_data) = Kept(n, ListOf(r.annual_income))
            /\ \A k \in DOMAIN annual_data :
                  /\ annual_data[k].balance_sheet.equity_value
                        = Delivered(r, "totalStockholdersEquity", k)
                  /\ annual_data[k].balance_sheet.avg_equity
                        = TrailingMean(r, "totalStockholdersEquity", k)
                  /\ annual_data[k].balance_sheet.avg_assets
                        = TrailingMean(r, "totalAssets", k)
            /\ ( /\ Len(ListOf(r.annual_income)) = n + 1
                 /\ \A k \in 1..(n + 1) :
                       /\ Delivered(r, "totalStockholdersEquity", k) # None
                       /\ Delivered(r, "totalAssets", k) # None )
               => /\ Len(annual_data) = n
                  /\ \A k \in 1..n :
                        /\ annual_data[k].balance_sheet.avg_equity # None
                        /\ annual_data[k].balance_sheet.avg_assets # None

\* two years asked for and three records delivered, with equity 300, 200
\* and 100: two periods are returned and the older one has avg_equity 150
C18_Witness ==
    \E i \in EquityCalls :
        /\ calls[i].num_years = 2
        /\ Len(ListOf(calls[i].responses.annual_income)) = 3
        /\ \A k \in 1..3 :
              Delivered(calls[i].responses, "totalStockholdersEquity", k) = Some(400 - 100 * k)
        /\ Len(calls[i].done.ret[1].annual_data) = 2
        /\ calls[i].done.ret[1].annual_data[2].balance_sheet.avg_equity = Some(150)
        /\ calls[i].done.ret[1].annual_data[2].balance_sheet.avg_assets # None

\* the annual periods of the list that are older than the period p
OlderThan(annual_data, p) ==
    {j \in DOMAIN annual_data : Int4(annual_data[j].period_name) < Int4(p.period_name)}

\* the youngest of the periods js of the list
Youngest(annual_data, js) ==
    CHOOSE j \in js : \A l \in js :
        Int4(annual_data[l].period_name) <= Int4(annual_data[j].period_name)

\* the mean of two stored values, None unless both are present
MeanOrNone(a, b) == IF a # None /\ b # None THEN Some((a[1] + b[1]) \div 2) ELSE None

\* C19: of the annual periods of a fetch that retains every period
\* delivered, each period with an older one has as avg_equity the mean of
\* its equity_value and that of the year before it when both are present,
\* and None otherwise, and as avg_assets the same of total_assets; the
\* oldest period has neither average.
C19_TrailingAverages ==
    \A i \in EquityCalls :
        LET annual_data == calls[i].done.ret[1].annual_data
        IN  Len(annual_data) = Len(ListOf(calls[i].responses.annual_income)) =>
                \A k \in DOMAIN annual_data :
                    LET bs == annual_data[k].balance_sheet
                        older == OlderThan(annual_data, annual_data[k])
                    IN  IF older = {}
                        THEN bs.avg_equity = None /\ bs.avg_assets = None
                        ELSE LET prev == annual_data[Youngest(annual_data, older)].balance_sheet
                             IN  /\ bs.avg_equity = MeanOrNone(bs.equity_value, prev.equity_value)
                                 /\ bs.avg_assets = MeanOrNone(bs.total_assets, prev.total_assets)

\* three annual periods with equity 300, 200 and 100, newest first, all
\* retained: avg_equity is 250, 150 and None
C19_Witness ==
    \E i \in EquityCalls :
        LET annual_data == calls[i].done.ret[1].annual_data
        IN  /\ Len(annual_data) = 3
            /\ Len(ListOf(calls[i].responses.annual_income)) = 3
            /\ \A k \in 1..3 : annual_data[k].balance_sheet.equity_value = Some(400 - 100 * k)
            /\ annual_data[1].balance_sheet.avg_equity = Some(250)
            /\ annual_data[2].balance_sheet.avg_equity = Some(150)
            /\ annual_data[3].balance_sheet.avg_equity = None

\* fetches with one annual and four quarterly records of every statement,
\* the records of a period having the same date
ValueCalls == {i \in FetchCalls : calls[i].input = "value"}

\* the value under the key of a record, Missing without the key
RawOf(item, key) == IF key \in DOMAIN item THEN item[key] ELSE Missing

\* a string of digits
IsDigits(str) == str # <<>> /\ \A k \in DOMAIN str : IsDigit(str[k])

\* stored is what the claim has for the raw value: the number divided by
\* 1,000,000; None for null, for a missing key and for a string that is no
\* number
StoredAs(stored, raw) ==
    CASE raw.kind = "num" -> stored = Some(raw.n \div Million)
      [] raw.kind = "str" /\ IsDigits(raw.str) -> stored # None
      [] OTHER -> stored = None

\* the fields stored from one key of a record: all but eps and the share
\* counts, adjusted_fcf and the averages
ScaledFields(fields) ==
    fields \ {"eps", "shares_outstanding", "adjusted_fcf", "avg_equity", "avg_assets"}

\* the period p stores the values of the income record inc, the
\* balance-sheet record bs and the cash-flow record cf as the claim says;
\* net_debt and free_cash_flow are derived when the record has none, and a
\* share count is compared when the records have one key for it
StoredAsClaimed(p, inc, bs, cf) ==
    /\ \A f \in ScaledFields(IncomeStatementFields) :
          StoredAs(p.income_statement[f], RawOf(inc, RawKey(f)))
    /\ \A f \in ScaledFields(BalanceSheetFields) :
          StoredAs(p.balance_sheet[f], RawOf(bs, RawKey(f)))
    /\ \A f \in DebtBreakdownFields \ {"net_debt"} :
          StoredAs(p.debt_breakdown[f], RawOf(bs, RawKey(f)))
    /\ \A f \in ScaledFields(CashFlowFields) \ {"free_cash_flow"} :
          StoredAs(p.cash_flow[f], RawOf(cf, RawKey(f)))
    /\ RawOf(bs, "netDebt").kind = "num" => StoredAs(p.debt_breakdown.net_debt, bs.netDebt)
    /\ RawOf(cf, "freeCashFlow").kind = "num" =>
          StoredAs(p.cash_flow.free_cash_flow, cf.freeCashFlow)
    /\ \A key \in ShareKeys :
          DOMAIN inc \cap ShareKeys = {key} =>
              StoredAs(p.income_statement.shares_outstanding, inc[key])
    /\ "weightedAverageShsOutDil" \notin DOMAIN inc =>
          StoredAs(p.balance_sheet.shares_outstanding, RawOf(bs, "commonStock"))

\* C20: every field the adapter stores from a key of a response is the raw
\* value divided by 1,000,000; a raw value that is null, missing or not a
\* number is stored as None, and a raw 0 is stored as 0.
C20_Scaling ==
    \A i \in ValueCalls :
        LET r == calls[i].responses
            c == calls[i].done.ret[1]
        IN  /\ calls[i].done.ret # None
            /\ Len(c.annual_data) = 1
            /\ Len(c.quarterly_data) = 4
            /\ StoredAsClaimed(c.annual_data[1], r.annual_income[1][1],
                               r.annual_balance[1][1], r.annual_cashflow[1][1])
            /\ \A k \in 1..4 :
                  StoredAsClaimed(c.quarterly_data[k], r.quarterly_income[1][k],
                                  r.quarterly_balance[1][k], r.quarterly_cashflow[1][k])

-----------------------------------------------------------------------------
(* Claims about PeriodManager *)

PeriodCalls(op) == {i \in DOMAIN calls : calls[i].op = op}

\* a name of four digits, a blank, "Q" and one of the digits 1 to 4
IsQuarterName(name) ==
    /\ Len(name) = 7
    /\ \A k \in 1..4 : IsDigit(name[k])
    /\ name[5] = " " /\ name[6] = "Q"
    /\ name[7] \in {"1", "2", "3", "4"}

\* a name of four digits
IsYearName(name) == Len(name) = 4 /\ \A k \in 1..4 : IsDigit(name[k])

\* the quarter of a quarter name, counted from the year 0
QuarterIndex(name) == 4 * Int4(name) + DigitVal(name[7])

\* the name of the latest of the quarters
LatestQuarter(periods) ==
    periods[CHOOSE i \in DOMAIN periods : \A j \in DOMAIN periods :
               QuarterIndex(periods[j].period_name) <= QuarterIndex(periods[i].period_name)
           ].period_name

\* the latest of the years
LatestYear(periods) ==
    CHOOSE y \in {Int4(periods[i].period_name) : i \in DOMAIN periods} :
        \A j \in DOMAIN periods : Int4(periods[j].period_name) <= y

\* C21: on a company with quarters named "YYYY Qn", in any order,
\* identify_last_full_year returns the year of the latest quarter when that
\* is a Q4 and the year before otherwise; on a company without quarters it
\* returns the latest year of its annual periods named "YYYY"; on a company
\* without periods it returns None.
C21_LastFullYear ==
    \A i \in PeriodCalls("identify_last_full_year") :
        LET c == calls[i].company
        IN  IF c.quarterly_data # <<>>
            THEN (\A k \in DOMAIN c.quarterly_data :
                     IsQuarterName(c.quarterly_data[k].period_name))
                 => calls[i].ret
                      = Some(IF LatestQuarter(c.quarterly_data)[7] = "4"
                             THEN Int4(LatestQuarter(c.quarterly_data))
                             ELSE Int4(LatestQuarter(c.quarterly_data)) - 1)
            ELSE IF c.annual_data # <<>>
            THEN (\A k \in DOMAIN c.annual_data : IsYearName(c.annual_data[k].period_name))
                 => calls[i].ret = Some(LatestYear(c.annual_data))
            ELSE calls[i].ret = None

\* the quarters "2023 Q4", "2024 Q2", oldest first, and an annual period
\* "2024": the last full year is 2023
C21_Witness ==
    \E i \in PeriodCalls("identify_last_full_year") :
        /\ Len(calls[i].company.quarterly_data) = 2
        /\ calls[i].company.quarterly_data[1].period_name = QuarterName(2023, 4)
        /\ calls[i].company.quarterly_data[2].period_name = QuarterName(2024, 2)
        /\ calls[i].company.annual_data # <<>>
        /\ calls[i].ret = Some(2023)

\* the trimmed name is four digits, whitespace, "Q" and one digit, and
\* nothing else
IsExactQuarter(name) ==
    /\ Len(name) >= 6
    /\ \A k \in 1..4 : IsDigit(name[k])
    /\ \A k \in 5..(Len(name) - 2) : IsSpace(name[k])
    /\ name[Len(name) - 1] = "Q"
    /\ IsDigit(name[Len(name)])

\* what the rules of C22 give for a trimmed name
Classified22(name) ==
    IF Upper(name) = <<"T", "T", "M">> THEN <<"TTM", 0, None>>
    ELSE IF IsExactQuarter(name)
    THEN <<"QUARTERLY", Int4(name), Some(DigitVal(name[Len(name)]))>>
    ELSE IF IsYearName(name) THEN <<"ANNUAL", Int4(name), None>>
    ELSE <<"", 0, None>>

\* C22: parse_period_info gives (TTM, 0, None) for "TTM" in any case;
\* (QUARTERLY, year, quarter) for four digits, optional whitespace, "Q" and
\* one digit; (ANNUAL, year, None) for four digits; and (None, 0, None) for
\* every other name, also for a quarter or a year with characters before or
\* behind it.  Whitespace around the name is not counted.
C22_ParsePeriodInfo ==
    \A i \in PeriodCalls("parse_period_info") :
        calls[i].ret = Classified22(Strip(calls[i].name))

\* C23: _sort_periods returns the periods of its input, each once, in
\* descending order of (year, quarter or 0) of parse_period_info; periods
\* with the same key keep the order of the input, the names that do not
\* parse (key (0, 0)) come last, and the list passed is left as it was.
C23_SortPeriods ==
    \A i \in PeriodCalls("sort_periods") :
        LET periods == calls[i].periods
            ret == calls[i].ret
            at(k) == ret[k].income_statement.revenues[1]
        IN  /\ Len(ret) = Len(periods)
            /\ \A k \in DOMAIN ret : at(k) \in DOMAIN periods /\ ret[k] = periods[at(k)]
            /\ \A k, l \in DOMAIN ret : at(k) = at(l) => k = l
            /\ \A k, l \in DOMAIN ret :
                  k < l =>
                      \/ KeyLess(sort_key(ret[l]), sort_key(ret[k]))
                      \/ sort_key(ret[l]) = sort_key(ret[k]) /\ at(k) < at(l)
            /\ \A k, l \in DOMAIN ret :
                  (parse_period_info(ret[k].period_name)[1] = "" /\ k < l)
                      => sort_key(ret[l]) = <<0, 0>>
            /\ calls[i].after = periods

\* "abc", "2024 Q0", "2024" sorts to "2024 Q0", "2024", "abc": the two
\* periods with the key (2024, 0) keep their order
C23_Witness ==
    \E i \in PeriodCalls("sort_periods") :
        /\ Len(calls[i].periods) = 3
        /\ calls[i].periods[1].period_name = <<"a", "b", "c">>
        /\ calls[i].periods[2].period_name = QuarterName(2024, 0)
        /\ calls[i].periods[3].period_name = YearStr(2024)
        /\ calls[i].ret[1].period_name = QuarterName(2024, 0)
        /\ calls[i].ret[2].period_name = YearStr(2024)
        /\ calls[i].ret[3].period_name = <<"a", "b", "c">>

\* C30: identify_last_full_year returns None or a year above 0, which is
\* the year parse_period_info gives for one of the company's periods, or
\* that year minus 1.
C30_LastFullYearIsAYear ==
    \A i \in PeriodCalls("identify_last_full_year") :
        LET c == calls[i].company
            years == {parse_period_info(c.quarterly_data[k].period_name)[2] :
                         k \in DOMAIN c.quarterly_data}
                     \cup {parse_period_info(c.annual_data[k].period_name)[2] :
                              k \in DOMAIN c.annual_data}
        IN  calls[i].ret # None =>
                /\ calls[i].ret[1] > 0
                /\ \E y \in years : y > 0 /\ calls[i].ret[1] \in {y, y - 1}

-----------------------------------------------------------------------------
(* Claims about the TTM period's point-in-time fields and cash flow *)

\* the latest of the quarters calculate_ttm_from_quarters uses
RecentQuarter(c) ==
    LET used == Take(c.quarterly_data, 4)
    IN  used[CHOOSE i \in DOMAIN used : used[i].period_name = LatestQuarter(used)]

\* C24: in a derived TTM period income_statement.shares_outstanding is the
\* most recent quarter's value, and balance_sheet, debt_breakdown and
\* market_data are those of the most recent quarterly period.
C24_PointInTime ==
    \A i \in CallsOf("calculate_ttm_from_quarters") :
        IsSet(calls[i].ret) =>
           /\ calls[i].ret[1].income_statement.shares_outstanding
                 = RecentQuarter(company).income_statement.shares_outstanding
           /\ calls[i].ret[1].balance_sheet = RecentQuarter(company).balance_sheet
           /\ calls[i].ret[1].debt_breakdown = RecentQuarter(company).debt_breakdown
           /\ calls[i].ret[1].market_data = RecentQuarter(company).market_data

\* the sum of the values of a cash-flow field that are set in the quarters
\* used, None when none is set
CashSum(c, field_name) ==
    NullExcludingSum(Take(c.quarterly_data, 4), "cash_flow", field_name, 1..4)

\* the free cash flow C28 gives for the TTM period
TtmFreeCashFlow(c) ==
    IF CashSum(c, "free_cash_flow") # None THEN CashSum(c, "free_cash_flow")
    ELSE IF CashSum(c, "cash_flow_from_operations") # None
            /\ CashSum(c, "capital_expenditures") # None
    THEN Some(CashSum(c, "cash_flow_from_operations")[1]
              + CashSum(c, "capital_expenditures")[1])
    ELSE None

\* C28: in a TTM period derived by financial_data.py free_cash_flow is the
\* sum of the quarters' free_cash_flow values that are set; when none is
\* set it is summed cash_flow_from_operations + summed capital_expenditures
\* if both sums are set, and None otherwise.  adjusted_fcf is that
\* free_cash_flow minus summed stock_based_compensation when both are set
\* and None otherwise, whatever the quarters' own adjusted_fcf.
C28_TtmCashFlow ==
    \A i \in CallsOf("calculate_ttm_from_quarters") :
        (module = "financial_data" /\ IsSet(calls[i].ret)) =>
           /\ calls[i].ret[1].cash_flow.free_cash_flow = TtmFreeCashFlow(company)
           /\ calls[i].ret[1].cash_flow.adjusted_fcf
                 = IF TtmFreeCashFlow(company) # None
                      /\ CashSum(company, "stock_based_compensation") # None
                   THEN Some(TtmFreeCashFlow(company)[1]
                             - CashSum(company, "stock_based_compensation")[1])
                   ELSE None

\* no quarter has a free_cash_flow, each has operations 4, stock-based
\* compensation 1 and an adjusted_fcf 8 of its own, one has capital
\* expenditures -2: the TTM period has free_cash_flow 14, adjusted_fcf 10
C28_Witness ==
    \E i \in CallsOf("calculate_ttm_from_quarters") :
        /\ module = "financial_data"
        /\ Len(company.quarterly_data) = 4
        /\ \A k \in 1..4 :
              /\ company.quarterly_data[k].cash_flow.free_cash_flow = None
              /\ company.quarterly_data[k].cash_flow.cash_flow_from_operations = Some(4)
              /\ company.quarterly_data[k].cash_flow.adjusted_fcf = Some(8)
        /\ IsSet(calls[i].ret)
        /\ calls[i].ret[1].cash_flow.free_cash_flow = Some(14)
        /\ calls[i].ret[1].cash_flow.adjusted_fcf = Some(10)

-----------------------------------------------------------------------------
(* Claims about the life of a loaded company *)

\* the company objects the calls before the j-th returned
ReturnedBefore(j) ==
    {calls[i].ret[1] : i \in {k \in LoadCalls : k < j /\ calls[k].ret # None}}

\* C27: every successful load_company call returns a company object no
\* earlier call returned and the cache did not hold; after every call each
\* object of the cache is, with all its periods, as the call that created
\* it returned it; a load changes no entry of the cache but the one of the
\* ticker it loaded, which it replaces with the new object; and
\* calculate_all_ratios and identify_last_full_year on a loaded company
\* leave every object of the cache as it was.
C27_Lifecycle ==
    /\ \A j \in LoadCalls :
          LET c == calls[j]
          IN  /\ c.ret # None =>
                    /\ \A old \in ReturnedBefore(j) : old.id # c.ret[1].id
                    /\ \A t \in DOMAIN c.before : c.before[t].id # c.ret[1].id
              /\ \A t \in DOMAIN c.after :
                    c.after[t] \in ReturnedBefore(j + 1)
              /\ \A t \in DOMAIN c.before :
                    /\ t \in DOMAIN c.after
                    /\ \/ c.after[t] = c.before[t]
                       \/ c.ret # None /\ c.ret[1].ticker = t /\ c.after[t] = c.ret[1]
    /\ \A j \in DOMAIN calls \ LoadCalls : calls[j].after = calls[j].before
    /\ \A old \in ReturnedBefore(Len(calls) + 1) :
          \A t \in DOMAIN companies :
              companies[t].id = old.id => companies[t] = old

\* two loads of the same ticker from different texts, then held apart: the
\* second returned a new object and the cache holds it
C27_Witness ==
    /\ Len(calls) = 2
    /\ calls[1].op = "load_company" /\ calls[2].op = "load_company"
    /\ calls[1].ret # None /\ calls[2].ret # None
    /\ calls[1].ret[1].ticker = calls[2].ret[1].ticker
    /\ calls[1].ret[1].quarterly_data # calls[2].ret[1].quarterly_data
    /\ calls[1].ret[1].id # calls[2].ret[1].id
    /\ companies[calls[2].ret[1].ticker] = calls[2].ret[1]

=============================================================================
